---- MODULE Spec2Model ----
(***************************************************************************)
(* A model of the recursive-descent front end (src/Parser.cpp) of the      *)
(* simple_ast_parser JIT compiler.  The parser is a set of mutually        *)
(* recursive functions over a lexer; each function is an operator that     *)
(* takes the lexer state and returns a result record                       *)
(*     [ok, node, lx, msg]                                                 *)
(* where ok = FALSE stands for a thrown std::runtime_error (msg is the     *)
(* text handed to makeErrorMsg), node is the returned AST node (NoNode     *)
(* for a nullptr) and lx is the lexer state on return.                     *)
(*                                                                         *)
(* Lexer.h / Lexer.cpp are not part of src/: the lexer operations are      *)
(* modelled from the specification (section 4.2).                          *)
(***************************************************************************)
EXTENDS Integers, Sequences, FiniteSets, TLC

VARIABLES input, lexer, nodes, error, attempt, report,
          mc, module, builder, codegen,
          reader, jit, run

vars == <<input, lexer, nodes, error, attempt, report, mc, module, builder, codegen,
          reader, jit, run>>

(***************************************************************************)
(* Tokens.  value is the optional lexeme, a sequence of characters.        *)
(***************************************************************************)
Tok(type) == [type |-> type, hasValue |-> FALSE, value |-> <<>>]

TokV(type, value) == [type |-> type, hasValue |-> TRUE, value |-> value]

EosToken == Tok("Eos")

(***************************************************************************)
(* The lexer: the token stream of the source, the index of the current     *)
(* token and whether a one-step rollback is available.                     *)
(***************************************************************************)
Lexer(toks) == [toks |-> toks, pos |-> 0, back |-> FALSE, ops |-> <<>>]

\* ops is the history of the requests made to the lexer: advances,
\* rollbacks and peeks, each with the function of the parser that made it
\* where that matters.
Requested(lx, op, site) == [lx EXCEPT !.ops = Append(@, [op |-> op, site |-> site])]

currToken(lx) ==
    IF lx.pos \in 1..Len(lx.toks) THEN lx.toks[lx.pos] ELSE EosToken

nextTokenAt(lx, site) ==
    Requested([lx EXCEPT !.pos = IF @ <= Len(lx.toks) THEN @ + 1 ELSE @,
                         !.back = TRUE],
              "nextToken", site)

nextToken(lx) == nextTokenAt(lx, "")

prevToken(lx) ==
    Requested(IF lx.back /\ lx.pos > 0
              THEN [lx EXCEPT !.pos = @ - 1, !.back = FALSE]
              ELSE lx,
              "prevToken", "")

\* The lexer after a peekToken request.
peeked(lx) == Requested(lx, "peekToken", "")

peekToken(lx) ==
    IF lx.pos + 1 \in 1..Len(lx.toks) THEN lx.toks[lx.pos + 1] ELSE EosToken

hasNextToken(lx) == currToken(lx).type # "Eos"

(***************************************************************************)
(* AST nodes.                                                              *)
(***************************************************************************)
NoNode == [kind |-> "None"]

NumberNode(value) == [kind |-> "Number", value |-> value]

StringNode(str) == [kind |-> "String", str |-> str]

BooleanNode(b) == [kind |-> "Boolean", bval |-> b]

IdentNode(name) == [kind |-> "Ident", name |-> name]

BinOpNode(op, lhs, rhs) == [kind |-> "BinOp", op |-> op, lhs |-> lhs, rhs |-> rhs]

UnaryOpNode(op, position, operand) ==
    [kind |-> "UnaryOp", op |-> op, position |-> position, operand |-> operand]

FunctionCallNode(ident, args) == [kind |-> "Call", callee |-> ident, args |-> args]

AssignmentNode(name, rvalue) == [kind |-> "Assignment", name |-> name, rvalue |-> rvalue]

BlockNode(statements) == [kind |-> "Block", statements |-> statements]

ProtoFunctionStatement(name, params) ==
    [kind |-> "ProtoFunction", name |-> name, params |-> params]

FunctionNode(proto, body) == [kind |-> "Function", proto |-> proto, body |-> body]

CondBranch(cond, then) == [cond |-> cond, then |-> then]

IfStatement(ifBranch, elseIfBranches, elseBranch) ==
    [kind |-> "If", ifBranch |-> ifBranch, elseIfBranches |-> elseIfBranches,
     elseBranch |-> elseBranch]

LoopCondNode(cond, body, loopType) ==
    [kind |-> "LoopCond", cond |-> cond, body |-> body, loopType |-> loopType]

ForLoopNode(init, next, cond, body) ==
    [kind |-> "ForLoop", init |-> init, next |-> next, cond |-> cond, body |-> body]

(***************************************************************************)
(* Results of a parsing function: a returned node or a thrown error.       *)
(***************************************************************************)
Ok(node, lx) == [ok |-> TRUE, node |-> node, lx |-> lx, msg |-> ""]

Throw(lx, msg) == [ok |-> FALSE, node |-> NoNode, lx |-> lx, msg |-> msg]

(***************************************************************************)
(* strtod on a number lexeme: digits with an optional '.' and more digits. *)
(* The value is the exact decimal m * 10^(-e), without trailing zeros.     *)
(***************************************************************************)
DigitValue(ch) ==
    CASE ch = "0" -> 0 [] ch = "1" -> 1 [] ch = "2" -> 2 [] ch = "3" -> 3
      [] ch = "4" -> 4 [] ch = "5" -> 5 [] ch = "6" -> 6 [] ch = "7" -> 7
      [] ch = "8" -> 8 [] ch = "9" -> 9 [] OTHER -> -1

RECURSIVE Normalize(_)
Normalize(d) ==
    IF d.e > 0 /\ d.m % 10 = 0
    THEN Normalize([m |-> d.m \div 10, e |-> d.e - 1])
    ELSE d

RECURSIVE ScanDigits(_, _, _, _)
ScanDigits(s, i, acc, inFrac) ==
    IF i > Len(s) THEN Normalize(acc)
    ELSE IF s[i] = "." /\ ~inFrac THEN ScanDigits(s, i + 1, acc, TRUE)
    ELSE IF DigitValue(s[i]) >= 0
         THEN ScanDigits(s, i + 1,
                         [m |-> acc.m * 10 + DigitValue(s[i]),
                          e |-> IF inFrac THEN acc.e + 1 ELSE acc.e],
                         inFrac)
         ELSE Normalize(acc)

strtod(s) == ScanDigits(s, 1, [m |-> 0, e |-> 0], FALSE)

SignTimes(sign, v) == [m |-> sign * v.m, e |-> v.e]

(***************************************************************************)
(* Control flow of the parsing functions.  Then(r, K) continues with K on  *)
(* the result of a call that returned and propagates a thrown error;       *)
(* OrElse(r, K) is `if (auto expr = tryParse...()) return expr;` followed  *)
(* by K.                                                                   *)
(***************************************************************************)
Then(r, K(_)) == IF r.ok THEN K(r) ELSE r

OrElse(r, K(_)) == IF ~r.ok \/ r.node.kind # "None" THEN r ELSE K(r)

(***************************************************************************)
(* The expression parser.                                                  *)
(***************************************************************************)
isSign(type) == type = "Plus" \/ type = "Minus"

RECURSIVE parseExpr(_)
RECURSIVE parseBoolLogic(_)
RECURSIVE parseBoolLogicLoop(_, _)
RECURSIVE parseComparisonExpr(_)
RECURSIVE parseComparisonLoop(_, _)
RECURSIVE parseAdditiveExpr(_)
RECURSIVE parseAdditiveLoop(_, _)
RECURSIVE parseTerm(_)
RECURSIVE parseTermLoop(_, _)
RECURSIVE parseFactor(_)
RECURSIVE tryParseUnaryOp(_)
RECURSIVE tryParsePrefixOp(_)
RECURSIVE tryParseIdentifier(_)
RECURSIVE parseFunctionCall(_, _)
RECURSIVE parseCallArgs(_, _)

parseIdent(lx) ==
    Ok(IdentNode(IF currToken(lx).hasValue THEN currToken(lx).value ELSE <<>>),
       nextToken(lx))

parseNumber(lx) ==
    LET signed == isSign(currToken(lx).type)
        sign   == IF signed /\ currToken(lx).type = "Minus" THEN -1 ELSE 1
        lx1    == IF signed THEN nextToken(lx) ELSE lx
    IN  IF ~currToken(lx1).hasValue
        THEN Throw(lx1, "Unexpected token")
        ELSE Ok(NumberNode(SignTimes(sign, strtod(currToken(lx1).value))),
                nextToken(lx1))

parseString(lx) ==
    Ok(StringNode(IF currToken(lx).hasValue THEN currToken(lx).value ELSE <<>>),
       nextToken(lx))

parseBoolean(lx) ==
    IF currToken(lx).type # "Boolean" /\ currToken(lx).hasValue
    THEN Throw(lx, "Invalid boolean expression")
    ELSE Ok(BooleanNode(currToken(lx).hasValue
                        /\ currToken(lx).value = <<"t", "r", "u", "e">>),
            nextToken(lx))

\* tryParseLiteral without the look-ahead for a signed number.
tryParseLiteralUnsigned(lx) ==
    IF currToken(lx).type = "Number" THEN parseNumber(lx)
    ELSE IF currToken(lx).type = "String" THEN parseString(lx)
    ELSE IF currToken(lx).type = "Boolean" THEN parseBoolean(lx)
    ELSE Ok(NoNode, lx)

\* The lexer after the condition of tryParseLiteral's first test: the
\* look-ahead is requested when the current token is a sign.
afterLookAhead(lx) ==
    IF currToken(lx).type # "Number" /\ isSign(currToken(lx).type)
    THEN peeked(lx)
    ELSE lx

tryParseLiteral(lx) ==
    IF currToken(lx).type = "Number"
       \/ (isSign(currToken(lx).type) /\ peekToken(lx).type = "Number")
    THEN parseNumber(afterLookAhead(lx))
    ELSE IF currToken(lx).type = "String" THEN parseString(afterLookAhead(lx))
    ELSE IF currToken(lx).type = "Boolean" THEN parseBoolean(afterLookAhead(lx))
    ELSE Ok(NoNode, afterLookAhead(lx))

parseExpr(lx) ==
    IF isSign(currToken(lx).type)
       \/ currToken(lx).type \in {"Number", "String", "Boolean", "LeftParenthesis",
                                  "Identifier", "IncrementOperator",
                                  "DecrementOperator", "LogicalNegation"}
    THEN parseBoolLogic(lx)
    ELSE Throw(lx, "Unexpected token")

\* The while loop of parseBoolLogic.
parseBoolLogicLoop(lhs, lx) ==
    IF currToken(lx).type \in {"LogicalAnd", "LogicalOr"}
    THEN Then(parseExpr(nextToken(lx)),
              LAMBDA rhs : parseBoolLogicLoop(
                               BinOpNode(currToken(lx).type, lhs, rhs.node), rhs.lx))
    ELSE Ok(lhs, lx)

parseBoolLogic(lx) ==
    Then(parseComparisonExpr(lx), LAMBDA lhs : parseBoolLogicLoop(lhs.node, lhs.lx))

\* The while loop of parseComparisonExpr.
parseComparisonLoop(lhs, lx) ==
    IF currToken(lx).type \in {"LeftAngleBracket", "LeftAngleBracketEqual",
                               "RightAngleBracket", "RightAngleBracketEqual",
                               "Equal", "NotEqual"}
    THEN Then(parseExpr(nextToken(lx)),
              LAMBDA rhs : parseComparisonLoop(
                               BinOpNode(currToken(lx).type, lhs, rhs.node), rhs.lx))
    ELSE Ok(lhs, lx)

parseComparisonExpr(lx) ==
    Then(parseAdditiveExpr(lx), LAMBDA lhs : parseComparisonLoop(lhs.node, lhs.lx))

\* The while loop of parseAdditiveExpr.
parseAdditiveLoop(lhs, lx) ==
    IF currToken(lx).type \in {"Plus", "Minus"}
    THEN Then(parseExpr(nextToken(lx)),
              LAMBDA rhs : parseAdditiveLoop(
                               BinOpNode(currToken(lx).type, lhs, rhs.node), rhs.lx))
    ELSE Ok(lhs, lx)

parseAdditiveExpr(lx) ==
    Then(parseTerm(lx), LAMBDA lhs : parseAdditiveLoop(lhs.node, lhs.lx))

\* The while loop of parseTerm.
parseTermLoop(lhs, lx) ==
    IF currToken(lx).type \in {"Star", "Slash"}
    THEN Then(parseExpr(nextToken(lx)),
              LAMBDA rhs : parseTermLoop(
                               BinOpNode(currToken(lx).type, lhs, rhs.node), rhs.lx))
    ELSE Ok(lhs, lx)

parseTerm(lx) ==
    Then(parseFactor(lx), LAMBDA lhs : parseTermLoop(lhs.node, lhs.lx))

tryParseUnaryOp(lx) ==
    IF currToken(lx).type \in {"Plus", "Minus", "LogicalNegation"}
    THEN Then(parseFactor(nextToken(lx)),
              LAMBDA val : Ok(UnaryOpNode(currToken(lx).type, "Prefix", val.node),
                              val.lx))
    ELSE Ok(NoNode, lx)

tryParsePrefixOp(lx) ==
    IF currToken(lx).type \in {"DecrementOperator", "IncrementOperator"}
    THEN Then(parseFactor(nextToken(lx)),
              LAMBDA val : Ok(UnaryOpNode(currToken(lx).type, "Prefix", val.node),
                              val.lx))
    ELSE Ok(NoNode, lx)

\* The condition of the do-while loop of parseFunctionCall.
parseCallArgsWhile(args, lx) ==
    IF currToken(lx).type = "Comma" THEN parseCallArgs(args, lx) ELSE Ok(args, lx)

\* The loop body of parseFunctionCall putting each argument in front.
parseCallArgsPrepend(args, lx) ==
    LET lx1 == IF currToken(lx).type = "Comma" THEN nextToken(lx) ELSE lx
    IN  IF currToken(lx1).type # "RightParenthesis"
        THEN Then(parseExpr(lx1),
                  LAMBDA arg : parseCallArgsWhile(<<arg.node>> \o args, arg.lx))
        ELSE parseCallArgsWhile(args, lx1)

\* The body of the do-while loop of parseFunctionCall.
parseCallArgs(args, lx) ==
    LET lx1 == IF currToken(lx).type = "Comma" THEN nextToken(lx) ELSE lx
    IN  IF currToken(lx1).type # "RightParenthesis"
        THEN Then(parseExpr(lx1),
                  LAMBDA arg : parseCallArgsWhile(Append(args, arg.node), arg.lx))
        ELSE parseCallArgsWhile(args, lx1)

parseFunctionCall(ident, lx) ==
    IF currToken(lx).type # "LeftParenthesis"
    THEN Throw(lx, "Expected '(' character")
    ELSE Then(parseCallArgs(<<>>, nextToken(lx)),
              LAMBDA args :
                  IF currToken(args.lx).type # "RightParenthesis"
                  THEN Throw(args.lx, "Expected ')' character")
                  ELSE Ok(FunctionCallNode(ident, args.node), nextToken(args.lx)))

tryParseIdentifier(lx) ==
    IF currToken(lx).type = "Identifier"
    THEN Then(parseIdent(lx),
              LAMBDA ident :
                  IF currToken(ident.lx).type \in {"DecrementOperator",
                                                   "IncrementOperator"}
                  THEN Ok(UnaryOpNode(currToken(ident.lx).type, "Postfix",
                                      ident.node),
                          nextToken(ident.lx))
                  ELSE IF currToken(ident.lx).type = "LeftParenthesis"
                       THEN parseFunctionCall(ident.node, ident.lx)
                       ELSE ident)
    ELSE Ok(NoNode, lx)

parseFactor(lx) ==
    IF currToken(lx).type = "LeftParenthesis"
    THEN Then(parseExpr(nextToken(lx)),
              LAMBDA expr :
                  IF currToken(expr.lx).type # "RightParenthesis"
                  THEN Throw(expr.lx, "Expected ')' character")
                  ELSE Ok(expr.node, nextToken(expr.lx)))
    ELSE OrElse(tryParseLiteral(lx), LAMBDA r1 :
         OrElse(tryParseIdentifier(lx), LAMBDA r2 :
         OrElse(tryParseUnaryOp(lx), LAMBDA r3 :
         OrElse(tryParsePrefixOp(lx), LAMBDA r4 :
         Throw(lx, "Unexpected token")))))

(***************************************************************************)
(* The statement parser.                                                   *)
(***************************************************************************)
RECURSIVE nextNode(_)
RECURSIVE parseIfStatement(_)
RECURSIVE parseElseBranches(_, _, _)
RECURSIVE parseCondBranch(_)
RECURSIVE parseBlock(_)
RECURSIVE parseCurlyBracketBlock(_)
RECURSIVE parseCurlyBracketBody(_, _)
RECURSIVE parseForStatement(_)
RECURSIVE parseWhileStatement(_)
RECURSIVE parseDoWhileStatement(_)
RECURSIVE parseFunctionDef(_)
RECURSIVE parseParams(_, _)

consumeSemicolon(lx) ==
    IF currToken(lx).type # "Semicolon"
    THEN Throw(lx, "Expected ';' character")
    ELSE Ok(NoNode, nextToken(lx))

parseAssignment(identName, lx) ==
    Then(parseExpr(lx),
         LAMBDA rvalue : Ok(AssignmentNode(identName, rvalue.node), rvalue.lx))

\* tryParseAssignment without the rollback.
tryParseAssignmentNoRollback(lx, needConsumeSemicolon) ==
    LET token == currToken(lx)
        lx1   == nextToken(lx)
    IN  IF token.type = "Identifier"
        THEN IF currToken(lx1).type = "Assignment" /\ token.hasValue
             THEN Then(parseAssignment(token.value, nextToken(lx1)),
                       LAMBDA result :
                           IF needConsumeSemicolon
                           THEN Then(consumeSemicolon(result.lx),
                                     LAMBDA semi : Ok(result.node, semi.lx))
                           ELSE result)
             ELSE Ok(NoNode, lx1)
        ELSE Ok(NoNode, lx)

\* tryParseAssignment rolling back by two tokens.
tryParseAssignmentRollbackTwice(lx, needConsumeSemicolon) ==
    LET token == currToken(lx)
        lx1   == nextTokenAt(lx, "tryParseAssignment")
    IN  IF token.type = "Identifier"
        THEN IF currToken(lx1).type = "Assignment" /\ token.hasValue
             THEN Then(parseAssignment(token.value, nextToken(lx1)),
                       LAMBDA result :
                           IF needConsumeSemicolon
                           THEN Then(consumeSemicolon(result.lx),
                                     LAMBDA semi : Ok(result.node, semi.lx))
                           ELSE result)
             ELSE Ok(NoNode, prevToken(prevToken(lx1)))
        ELSE Ok(NoNode, lx)

\* token is bound to the value currToken() returned before the advance.
tryParseAssignment(lx, needConsumeSemicolon) ==
    LET token == currToken(lx)
        lx1   == nextTokenAt(lx, "tryParseAssignment")
    IN  IF token.type = "Identifier"
        THEN IF currToken(lx1).type = "Assignment" /\ token.hasValue
             THEN Then(parseAssignment(token.value, nextToken(lx1)),
                       LAMBDA result :
                           IF needConsumeSemicolon
                           THEN Then(consumeSemicolon(result.lx),
                                     LAMBDA semi : Ok(result.node, semi.lx))
                           ELSE result)
             ELSE Ok(NoNode, prevToken(lx1))
        ELSE Ok(NoNode, lx)

parseCondBranch(lx) ==
    Then(parseExpr(lx), LAMBDA condition :
    Then(parseBlock(condition.lx), LAMBDA thenBranch :
    Ok(CondBranch(condition.node, thenBranch.node), thenBranch.lx)))

\* The loop of parseIfStatement going on after a plain else block.
parseElseBranchesNoBreak(ifBranch, elseIfBranches, lx) ==
    IF currToken(lx).type = "Else"
    THEN IF currToken(nextToken(lx)).type # "If"
         THEN Then(parseBlock(nextToken(lx)), LAMBDA elseBranch :
              Then(parseElseBranches(ifBranch, elseIfBranches, elseBranch.lx),
                   LAMBDA rest :
                       Ok(IfStatement(ifBranch, rest.node.elseIfBranches,
                                      <<elseBranch.node>>),
                          rest.lx)))
         ELSE Then(parseCondBranch(nextToken(nextToken(lx))),
                   LAMBDA branch :
                       parseElseBranches(ifBranch,
                                         Append(elseIfBranches, branch.node),
                                         branch.lx))
    ELSE Ok(IfStatement(ifBranch, elseIfBranches, <<>>), lx)

\* The while loop of parseIfStatement; the else branch is <<>> when absent.
parseElseBranches(ifBranch, elseIfBranches, lx) ==
    IF currToken(lx).type = "Else"
    THEN IF currToken(nextToken(lx)).type # "If"
         THEN Then(parseBlock(nextToken(lx)),
                   LAMBDA elseBranch :
                       Ok(IfStatement(ifBranch, elseIfBranches, <<elseBranch.node>>),
                          elseBranch.lx))
         ELSE Then(parseCondBranch(nextToken(nextToken(lx))),
                   LAMBDA branch :
                       parseElseBranches(ifBranch,
                                         Append(elseIfBranches, branch.node),
                                         branch.lx))
    ELSE Ok(IfStatement(ifBranch, elseIfBranches, <<>>), lx)

parseIfStatement(lx) ==
    Then(parseCondBranch(lx),
         LAMBDA ifBranch : parseElseBranches(ifBranch.node, <<>>, ifBranch.lx))

\* The while loop of parseCurlyBracketBlock, entered with the '{' consumed.
parseCurlyBracketBody(body, lx) ==
    IF currToken(lx).type # "RightCurlyBracket"
    THEN Then(nextNode(lx),
              LAMBDA node :
                  parseCurlyBracketBody(IF node.node.kind # "None"
                                        THEN Append(body, node.node)
                                        ELSE body,
                                        node.lx))
    ELSE Ok(BlockNode(body), nextToken(lx))

parseCurlyBracketBlock(lx) ==
    IF currToken(lx).type # "LeftCurlyBracket"
    THEN Throw(lx, "Unexpected token")
    ELSE parseCurlyBracketBody(<<>>, nextToken(lx))

parseBlock(lx) ==
    IF currToken(lx).type = "LeftCurlyBracket"
    THEN parseCurlyBracketBlock(lx)
    ELSE Then(parseExpr(lx), LAMBDA expr :
         Then(consumeSemicolon(expr.lx), LAMBDA semi :
         Ok(BlockNode(<<expr.node>>), semi.lx)))

parseForStatement(lx) ==
    IF currToken(lx).type # "LeftParenthesis"
    THEN Throw(lx, "Expected '(' after 'for'")
    ELSE
    Then(tryParseAssignment(nextToken(lx), FALSE), LAMBDA initExpr :
    IF currToken(initExpr.lx).type # "Semicolon"
    THEN Throw(initExpr.lx, "Expected ';' after init statement")
    ELSE
    Then(parseExpr(nextToken(initExpr.lx)), LAMBDA condition :
    IF currToken(condition.lx).type # "Semicolon"
    THEN Throw(condition.lx, "Expected ';' after condition")
    ELSE
    Then(parseExpr(nextToken(condition.lx)), LAMBDA nextExpr :
    IF currToken(nextExpr.lx).type # "RightParenthesis"
    THEN Throw(nextExpr.lx, "Expected ')'")
    ELSE
    Then(parseBlock(nextToken(nextExpr.lx)), LAMBDA forBody :
    Ok(ForLoopNode(initExpr.node, nextExpr.node, condition.node, forBody.node),
       forBody.lx)))))

parseWhileStatement(lx) ==
    IF currToken(lx).type # "LeftParenthesis"
    THEN Throw(lx, "Expected '(' after 'while'")
    ELSE
    Then(parseExpr(nextToken(lx)), LAMBDA condition :
    IF currToken(condition.lx).type # "RightParenthesis"
    THEN Throw(condition.lx, "Expected ')' after condition")
    ELSE
    Then(parseBlock(nextToken(condition.lx)), LAMBDA body :
    Ok(LoopCondNode(condition.node, body.node, "While"), body.lx)))

parseDoWhileStatement(lx) ==
    IF currToken(lx).type # "LeftCurlyBracket"
    THEN Throw(lx, "Expected '{' after 'do'")
    ELSE
    Then(parseCurlyBracketBlock(lx), LAMBDA body :
    IF currToken(body.lx).type # "WhileLoop"
    THEN Throw(body.lx, "Expected 'while' keyword")
    ELSE IF currToken(nextToken(body.lx)).type # "LeftParenthesis"
    THEN Throw(nextToken(body.lx), "Expected '(' after 'while'")
    ELSE
    Then(parseExpr(nextToken(nextToken(body.lx))), LAMBDA condition :
    IF currToken(condition.lx).type # "RightParenthesis"
    THEN Throw(condition.lx, "Expected ')' after condition")
    ELSE Ok(LoopCondNode(condition.node, body.node, "DoWhile"),
            nextToken(condition.lx))))

\* The parameter loop of parseFunctionDef putting each name in front.
parseParamsReversed(params, lx) ==
    IF currToken(lx).type # "RightParenthesis"
    THEN Then(parseIdent(lx),
              LAMBDA param :
                  IF currToken(param.lx).type # "Comma"
                     /\ currToken(param.lx).type # "RightParenthesis"
                  THEN Throw(param.lx, "Unexpected token")
                  ELSE parseParams(<<param.node.name>> \o params,
                                   IF currToken(param.lx).type = "Comma"
                                   THEN nextToken(param.lx)
                                   ELSE param.lx))
    ELSE Ok(params, lx)

\* The while loop of parseFunctionDef over the parameter list.
parseParams(params, lx) ==
    IF currToken(lx).type # "RightParenthesis"
    THEN Then(parseIdent(lx),
              LAMBDA param :
                  IF currToken(param.lx).type # "Comma"
                     /\ currToken(param.lx).type # "RightParenthesis"
                  THEN Throw(param.lx, "Unexpected token")
                  ELSE parseParams(Append(params, param.node.name),
                                   IF currToken(param.lx).type = "Comma"
                                   THEN nextToken(param.lx)
                                   ELSE param.lx))
    ELSE Ok(params, lx)

parseFunctionDef(lx) ==
    IF currToken(lx).type # "Identifier"
    THEN Throw(lx, "Unexpected token")
    ELSE
    Then(parseIdent(lx), LAMBDA fnName :
    Then(parseParams(<<>>, nextToken(fnName.lx)), LAMBDA params :
    IF currToken(nextToken(params.lx)).type = "LeftCurlyBracket"
    THEN Then(parseCurlyBracketBlock(nextToken(params.lx)),
              LAMBDA body :
                  Ok(FunctionNode(ProtoFunctionStatement(fnName.node.name,
                                                         params.node),
                                  body.node),
                     body.lx))
    ELSE Then(consumeSemicolon(nextToken(params.lx)),
              LAMBDA semi :
                  Ok(ProtoFunctionStatement(fnName.node.name, params.node),
                     semi.lx))))

nextNode(lx) ==
    OrElse(tryParseAssignment(lx, TRUE), LAMBDA none :
    IF currToken(lx).type = "FunctionDefinition"
    THEN parseFunctionDef(nextToken(lx))
    ELSE IF currToken(lx).type = "If" THEN parseIfStatement(nextToken(lx))
    ELSE IF currToken(lx).type = "ForLoop" THEN parseForStatement(nextToken(lx))
    ELSE IF currToken(lx).type = "WhileLoop" THEN parseWhileStatement(nextToken(lx))
    ELSE IF currToken(lx).type = "DoLoop" THEN parseDoWhileStatement(nextToken(lx))
    ELSE Then(parseExpr(none.lx), LAMBDA result :
         Then(consumeSemicolon(result.lx), LAMBDA semi :
         Ok(result.node, semi.lx))))

\* Parser::Parser: the constructor reads the first token.
Parser(toks) == nextToken(Lexer(toks))

hasNextNode(lx) == hasNextToken(lx)

(***************************************************************************)
(* Parser::makeErrorMsg.  The lexer's readText() is the text read so far,  *)
(* as (character, absolute offset) pairs.  The message is the text, a      *)
(* newline, padding '-' characters, marks '^' characters and msg; the two  *)
(* runs are kept as their lengths.  padding is a uint32_t, kept as two     *)
(* 16-bit halves.                                                          *)
(***************************************************************************)
readText(text, read) == [i \in 1..read |-> [ch |-> text[i], pos |-> i - 1]]

RECURSIVE StartLinePos(_, _, _)
StartLinePos(rt, i, startLinePos) ==
    IF i > Len(rt) THEN startLinePos
    ELSE StartLinePos(rt, i + 1,
                      IF rt[i].ch = "\n" THEN rt[i].pos + 1 ELSE startLinePos)

\* a - b in uint32_t, for a, b below 2^16.
UInt32Sub(a, b) ==
    IF a >= b THEN [hi |-> 0, lo |-> a - b]
    ELSE [hi |-> 65535, lo |-> 65536 - (b - a)]

makeErrorMsg(rt, token, msg) ==
    [lines   |-> [i \in 1..Len(rt) |-> rt[i].ch],
     padding |-> UInt32Sub(token.startPosition, StartLinePos(rt, 1, 0)),
     marks   |-> token.endPosition - token.startPosition + 1,
     msg     |-> msg]

(***************************************************************************)
(* The emitter (src/ir/LLVMCodegen.cpp).  Backend types are "i1", "i8",    *)
(* "i32", "double", "ptr" and "void".  A backend value is its type and     *)
(* what it is: "null" (nullptr), "const", "inst" (a non-terminator         *)
(* instruction), "term" (a terminator), "func" or "global".                *)
(***************************************************************************)
IntegerTypes == {"i1", "i8", "i32"}

BackendTypes == IntegerTypes \cup {"double", "ptr", "void"}

getIntegerBitWidth(type) ==
    CASE type = "i1" -> 1 [] type = "i8" -> 8 [] type = "i32" -> 32

Value(ty, what) == [ty |-> ty, what |-> what]

NullValue == Value("void", "null")

\* The AST nodes the emitter reads beyond the fields the parser fills in.
PrimitiveType(type) == type

NumberLiteral(value, isFloat) == [kind |-> "Number", value |-> value, isFloat |-> isFloat]

DeclarationNode(type, name, init) ==
    [kind |-> "Declaration", type |-> type, name |-> name, init |-> init]

ReturnNode(expr) == [kind |-> "Return", expr |-> expr]

Param(type, name) == [type |-> type, name |-> name]

ProtoFunction(name, params, returnType, isVarArgs) ==
    [kind |-> "ProtoFunction", name |-> name, params |-> params,
     returnType |-> returnType, isVarArgs |-> isVarArgs]

\* generateType, for a type that is not a pointer.
generateType(typeNode) ==
    CASE typeNode = "Boolean" -> "i1"
      [] typeNode = "Byte" -> "i8"
      [] typeNode = "Char" -> "i8"
      [] typeNode = "Double" -> "double"
      [] typeNode = "Integer" -> "i32"
      [] typeNode = "Void" -> "void"
      [] typeNode = "Str" -> "ptr"

\* nullptr is "null".
getResultType(lhsType, rhsType) ==
    IF lhsType = rhsType THEN lhsType
    ELSE IF lhsType = "double" \/ rhsType = "double" THEN "double"
    ELSE IF lhsType \in IntegerTypes /\ rhsType \in IntegerTypes
         THEN IF getIntegerBitWidth(lhsType) > getIntegerBitWidth(rhsType)
              THEN lhsType
              ELSE rhsType
         ELSE "null"

getCastOpSignExtending(srcType, destType) ==
    IF destType = "i1" /\ srcType # "i1" THEN "none"
    ELSE IF srcType = "double" /\ destType \in IntegerTypes THEN "FPToSI"
    ELSE IF srcType \in IntegerTypes /\ destType = "double" THEN "SIToFP"
    ELSE IF srcType \in IntegerTypes /\ destType \in IntegerTypes
         THEN IF getIntegerBitWidth(destType) > getIntegerBitWidth(srcType)
              THEN "SExt"
              ELSE "Trunc"
         ELSE "none"

\* The lambda of tryCastValue; std::nullopt is "none".
getCastOp(srcType, destType) ==
    IF destType = "i1" /\ srcType # "i1" THEN "none"
    ELSE IF srcType = "double" /\ destType \in IntegerTypes THEN "FPToSI"
    ELSE IF srcType \in IntegerTypes /\ destType = "double" THEN "SIToFP"
    ELSE IF srcType \in IntegerTypes /\ destType \in IntegerTypes
         THEN IF getIntegerBitWidth(srcType) = 1 THEN "ZExt"
              ELSE IF getIntegerBitWidth(destType) > getIntegerBitWidth(srcType)
                   THEN "SExt"
                   ELSE "Trunc"
         ELSE "none"

\* What tryCastValue does with a value of srcType: "same" returns it as it
\* is, "throw" is the Unsupported cast error, otherwise the cast created.
castOutcome(srcType, destType) ==
    IF srcType = destType THEN "same"
    ELSE IF getCastOp(srcType, destType) = "none" THEN "throw"
    ELSE getCastOp(srcType, destType)

(***************************************************************************)
(* Comparison predicates.  createComparePredicate is the predicate chosen  *)
(* by createCompare of LLVMCodegen.cpp; getComparePredicate is the one of  *)
(* NumericIRType.  "throw" is the Unsupported comparison error.            *)
(***************************************************************************)
createComparePredicate(op, isFloatingPoint) ==
    IF isFloatingPoint
    THEN CASE op = "LeftAngleBracket" -> "FCMP_OLT"
           [] op = "LeftAngleBracketEqual" -> "FCMP_OLE"
           [] op = "RightAngleBracket" -> "FCMP_OGT"
           [] op = "RightAngleBracketEqual" -> "FCMP_OGE"
           [] op = "Equal" -> "FCMP_OEQ"
           [] op = "NotEqual" -> "FCMP_ONE"
           [] OTHER -> "throw"
    ELSE CASE op = "LeftAngleBracket" -> "ICMP_SLT"
           [] op = "LeftAngleBracketEqual" -> "ICMP_SLT"
           [] op = "RightAngleBracket" -> "ICMP_SGT"
           [] op = "RightAngleBracketEqual" -> "ICMP_SGE"
           [] op = "Equal" -> "ICMP_EQ"
           [] op = "NotEqual" -> "ICMP_NE"
           [] OTHER -> "throw"

\* A semantic numeric type: NumericIRType(isPointer, isSigned, isFloat).
NumericIRType(class, isSigned, isFloat) ==
    [class |-> class, numeric |-> TRUE, isSigned |-> isSigned, isFloat |-> isFloat]

ByteIRType == NumericIRType("Byte", FALSE, FALSE)

CharIRType == NumericIRType("Char", TRUE, FALSE)

IntIRType == NumericIRType("Integer", TRUE, FALSE)

DoubleIRType == NumericIRType("Double", TRUE, TRUE)

BooleanIRType == [class |-> "Boolean", numeric |-> FALSE, isSigned |-> FALSE, isFloat |-> FALSE]

StrIRType == [class |-> "Str", numeric |-> FALSE, isSigned |-> FALSE, isFloat |-> FALSE]

\* A null IRType pointer.
NullIRType == [class |-> "null", numeric |-> FALSE, isSigned |-> FALSE, isFloat |-> FALSE]

getComparePredicate(type, op) ==
    CASE op = "LeftAngleBracket" ->
            IF type.isSigned
            THEN (IF type.isFloat THEN "FCMP_OLT" ELSE "ICMP_SLT")
            ELSE "ICMP_ULT"
      [] op = "LeftAngleBracketEqual" ->
            IF type.isSigned
            THEN (IF type.isFloat THEN "FCMP_OLE" ELSE "ICMP_SLE")
            ELSE "ICMP_ULE"
      [] op = "RightAngleBracket" ->
            IF type.isSigned
            THEN (IF type.isFloat THEN "FCMP_OGT" ELSE "ICMP_SGT")
            ELSE "ICMP_UGT"
      [] op = "RightAngleBracketEqual" ->
            IF type.isSigned
            THEN (IF type.isFloat THEN "FCMP_OGE" ELSE "ICMP_SGE")
            ELSE "ICMP_UGE"
      [] op = "Equal" -> "ICMP_EQ"
      [] op = "NotEqual" -> "ICMP_NE"
      [] OTHER -> "throw"

\* The i1 result of an integer compare instruction on signed values.
icmp(pred, x, y) ==
    CASE pred = "ICMP_SLT" -> x < y
      [] pred = "ICMP_SLE" -> x <= y
      [] pred = "ICMP_SGT" -> x > y
      [] pred = "ICMP_SGE" -> x >= y
      [] pred = "ICMP_EQ" -> x = y
      [] pred = "ICMP_NE" -> x # y

(***************************************************************************)
(* NumericIRType::createBinaryOp and createUnaryOp.  A binary operation is *)
(* the name of the instruction the builder is asked for; "throw" is the    *)
(* Unsupported integer operation error.  Integer values keep the width of  *)
(* their type.                                                             *)
(***************************************************************************)
NumericCreateAdd(type) == IF type.isFloat THEN "fadd" ELSE "add"

NumericCreateSub(type) == IF type.isFloat THEN "fsub" ELSE "sub"

NumericCreateMul(type) == IF type.isFloat THEN "fmul" ELSE "mul"

NumericCreateDiv(type) ==
    IF type.isSigned
    THEN (IF type.isFloat THEN "fsub" ELSE "sdiv")
    ELSE "udiv"

NumericCreateBinaryOp(type, op) ==
    CASE op = "Plus" -> NumericCreateAdd(type)
      [] op = "Minus" -> NumericCreateSub(type)
      [] op = "Star" -> NumericCreateMul(type)
      [] op = "Slash" -> NumericCreateDiv(type)
      [] op \in {"LeftAngleBracket", "LeftAngleBracketEqual", "RightAngleBracket",
                 "RightAngleBracketEqual", "Equal", "NotEqual"} ->
             getComparePredicate(type, op)
      [] OTHER -> "throw"

\* The width in bits of the backend type of an integer IRType.
BitsOf(type) == IF type.class \in {"Byte", "Char"} THEN 8 ELSE 32

\* The largest and the smallest two's-complement value of a width.
MaxOf(bits) == (2 ^ (bits - 2) - 1) + 2 ^ (bits - 2)

MinOf(bits) == -MaxOf(bits) - 1

\* The add instruction on a value and the constant 1 or -1.
AddWrapped(x, delta, bits) ==
    IF delta = 1 /\ x = MaxOf(bits) THEN MinOf(bits)
    ELSE IF delta = -1 /\ x = MinOf(bits) THEN MaxOf(bits)
    ELSE x + delta

\* createUnaryOp on an integer type: the value stored to the storage slot
\* (<<>> when there is none) and the value returned.
NumericCreateUnaryOp(type, op, operand, storage) ==
    LET delta  == IF op = "IncrementOperator" THEN 1 ELSE -1
        result == AddWrapped(operand, delta, BitsOf(type))
    IN  [stored   |-> IF storage THEN <<result>> ELSE <<>>,
         returned |-> IF op = "IncrementOperator" THEN result ELSE operand]

(***************************************************************************)
(* IRType::isOperationSupported of NumericIRType and of ByteIRType.        *)
(***************************************************************************)
NumericIsOperationSupported(op, rhs) ==
    IF rhs.numeric
    THEN op \in {"Plus", "Minus", "Star", "Slash", "Equal", "NotEqual",
                 "LeftAngleBracket", "LeftAngleBracketEqual",
                 "RightAngleBracket", "RightAngleBracketEqual"}
    ELSE FALSE

ByteIsOperationSupported(op, rhs) ==
    IF ~NumericIsOperationSupported(op, rhs) THEN FALSE
    ELSE IF rhs.numeric
         THEN op \in {"BitwiseAnd", "BitwiseOr", "BitwiseXor"}
         ELSE FALSE

(***************************************************************************)
(* The state the emitter works on: the module context mc (symbol table,    *)
(* globals, known prototypes), the backend module (functions, basic        *)
(* blocks, the instructions created so far, in creation order) and the     *)
(* builder's insertion point (block 0: none).  An emitting function takes  *)
(* this state and returns it with value (the visitor's value_), ok and     *)
(* msg / subject (the exception thrown and the name it reports).  A        *)
(* process that dies on a null pointer has msg "crash".  trace records,    *)
(* for each call of the functions the properties are about, the state      *)
(* around the call.  platform fixes what the sources do not: what a read   *)
(* through a null llvm::Value pointer yields, and whether                  *)
(* SymbolTable::insert rebinds a name of the top scope or rejects it.      *)
(***************************************************************************)
Slot(space, id, name, ty, isConstant) ==
    [space |-> space, id |-> id, name |-> name, ty |-> ty, isConstant |-> isConstant]

NoSlot == Slot("none", 0, "", "void", FALSE)

ModuleFunction(name, serial, paramTypes, paramNames, ret, isVarArg) ==
    [name |-> name, serial |-> serial, paramTypes |-> paramTypes,
     paramNames |-> paramNames, ret |-> ret, isVarArg |-> isVarArg]

NoFunction == ModuleFunction("", 0, <<>>, <<>>, "void", FALSE)

Instruction(op, block, ty, slot, callee) ==
    [op |-> op, block |-> block, ty |-> ty, slot |-> slot, callee |-> callee]

InsertPoint(block, point) == [block |-> block, point |-> point]

NoInsertPoint == InsertPoint(0, "end")

EmptyModuleContext == [symTable |-> <<>>, gValues |-> {}, functions |-> {}]

EmptyModule == [functions |-> <<>>, blocks |-> <<>>, code |-> <<>>]

Emitter(mc_, module_, builder_, platform) ==
    [mc |-> mc_, module |-> module_, builder |-> builder_, value |-> NullValue,
     ok |-> TRUE, msg |-> "", subject |-> "", trace |-> <<>>,
     platform |-> platform]

Raise(st, msg, subject) == [st EXCEPT !.ok = FALSE, !.msg = msg, !.subject = subject]

Crash(st) == [st EXCEPT !.ok = FALSE, !.msg = "crash", !.subject = ""]

Return(st, value) == [st EXCEPT !.value = value]

\* A builder Create... call: the instruction is created and, when there is
\* an insertion point, inserted there.
Create(st, op, ty, slot, callee) ==
    [st EXCEPT !.module.code =
                   Append(@, Instruction(op, st.builder.block, ty, slot, callee))]

InsertPointGuardOff(saved, st) == st

\* llvm::IRBuilderBase::InsertPointGuard: the destructor runs on return and
\* on stack unwinding, not when the process dies.
InsertPointGuard(saved, st) ==
    IF st.msg = "crash" THEN st ELSE [st EXCEPT !.builder = saved]

(***************************************************************************)
(* The symbol table: a stack of scopes, each a set of bindings.            *)
(***************************************************************************)
Binding(name, slot) == [name |-> name, slot |-> slot]

enterScope(symTable) == Append(symTable, {})

exitScope(symTable) ==
    IF symTable = <<>> THEN symTable ELSE SubSeq(symTable, 1, Len(symTable) - 1)

BoundIn(scope, name) == \E bnd \in scope : bnd.name = name

RECURSIVE lookupFrom(_, _, _)
lookupFrom(symTable, i, name) ==
    IF i = 0 THEN NoSlot
    ELSE IF BoundIn(symTable[i], name)
         THEN (CHOOSE bnd \in symTable[i] : bnd.name = name).slot
         ELSE lookupFrom(symTable, i - 1, name)

lookup(symTable, name) == lookupFrom(symTable, Len(symTable), name)

insert(st, name, slot) ==
    LET symTable == st.mc.symTable
        top      == Len(symTable)
    IN  IF top = 0 THEN Raise(st, "No scope", name)
        ELSE IF BoundIn(symTable[top], name) /\ ~st.platform.rebind
        THEN Raise(st, "Redeclaration", name)
        ELSE [st EXCEPT !.mc.symTable[top] =
                            {bnd \in @ : bnd.name # name}
                                \cup {Binding(name, slot)}]

\* mc.gValues.find(name); NoSlot for end().
findGlobal(gValues, name) ==
    IF \E g \in gValues : g.name = name
    THEN CHOOSE g \in gValues : g.name = name
    ELSE NoSlot

\* module->getFunction(name): the index of the function, 0 for nullptr.
getFunction(module_, name) ==
    LET found == {i \in 1..Len(module_.functions) :
                      /\ module_.functions[i].name = name
                      /\ module_.functions[i].serial = 0}
    IN  IF found = {} THEN 0 ELSE CHOOSE i \in found : TRUE

\* The entry block of the function that holds block.
getEntryBlock(module_, block) ==
    CHOOSE e \in 1..Len(module_.blocks) :
        /\ module_.blocks[e] = module_.blocks[block]
        /\ \A e2 \in 1..Len(module_.blocks) :
               module_.blocks[e2] = module_.blocks[block] => e <= e2

\* The function of a prototype, as Function::Create makes it.
FunctionOf(proto, serial) ==
    ModuleFunction(proto.name, serial,
                   [i \in 1..Len(proto.params) |-> generateType(proto.params[i].type)],
                   [i \in 1..Len(proto.params) |-> proto.params[i].name],
                   generateType(proto.returnType), proto.isVarArgs)

\* What getModuleFunction resolves name to: the function of the module,
\* else the function of the known prototype, else NoFunction.
Resolved(st, name) ==
    IF getFunction(st.module, name) # 0
    THEN st.module.functions[getFunction(st.module, name)]
    ELSE IF \E proto \in st.mc.functions : proto.name = name
         THEN FunctionOf(CHOOSE proto \in st.mc.functions : proto.name = name, 0)
         ELSE NoFunction

\* One entry of the trace: the call, the name it is about, the number of
\* arguments of a call, and the state before and after it.
Event(fn, name, nargs, pre, post) ==
    [fn |-> fn, name |-> name, ok |-> post.ok, msg |-> post.msg,
     subject |-> post.subject,
     ipBefore |-> pre.builder, ipAfter |-> post.builder,
     depthBefore |-> Len(pre.mc.symTable), depthAfter |-> Len(post.mc.symTable),
     tableBefore |-> pre.mc.symTable, tableAfter |-> post.mc.symTable,
     local |-> lookup(pre.mc.symTable, name),
     global |-> findGlobal(pre.mc.gValues, name),
     callee |-> Resolved(pre, name), nargs |-> nargs,
     from |-> Len(pre.module.code), to |-> Len(post.module.code)]

Traced(fn, name, nargs, pre, post) ==
    IF post.msg = "crash" THEN post
    ELSE [post EXCEPT !.trace = Append(@, Event(fn, name, nargs, pre, post))]

(***************************************************************************)
(* The emitting functions.                                                 *)
(***************************************************************************)
RECURSIVE generate(_, _)
RECURSIVE visit(_, _)
RECURSIVE generateArgs(_, _, _, _)
RECURSIVE generateStatements(_, _, _)
RECURSIVE generateBasicBlock(_, _, _, _)

\* tryCastValue.  A cast of a constant is folded by the builder; a null
\* value is dereferenced.
tryCastValue(st, value, destType) ==
    IF value.what = "null" THEN Crash(st)
    ELSE IF castOutcome(value.ty, destType) = "same" THEN Return(st, value)
    ELSE IF castOutcome(value.ty, destType) = "throw"
    THEN Raise(st, "Unsupported cast", "")
    ELSE IF value.what = "const" THEN Return(st, Value(destType, "const"))
    ELSE Return(Create(st, castOutcome(value.ty, destType), destType, NoSlot, ""),
                Value(destType, "inst"))

visitIdent(node, st) ==
    IF findGlobal(st.mc.gValues, node.name) # NoSlot
    THEN Return(Create(st, "load", findGlobal(st.mc.gValues, node.name).ty,
                       findGlobal(st.mc.gValues, node.name), ""),
                Value(findGlobal(st.mc.gValues, node.name).ty, "inst"))
    ELSE IF lookup(st.mc.symTable, node.name) = NoSlot
    THEN Raise(st, "Unknown variable name", node.name)
    ELSE Return(Create(st, "load", lookup(st.mc.symTable, node.name).ty,
                       lookup(st.mc.symTable, node.name), ""),
                Value(lookup(st.mc.symTable, node.name).ty, "inst"))

visitNumber(node, st) ==
    Return(st, Value(IF node.isFloat THEN "double" ELSE "i32", "const"))

visitBoolean(node, st) == Return(st, Value("i1", "const"))

\* The string global is not entered in mc.gValues; the address of its first
\* byte is a constant expression.
visitString(node, st) == Return(st, Value("ptr", "const"))

\* createAdd, createSub, createMul, createDiv, createCompare on two values
\* of resultType; two constants are folded by the builder.
createBinary(st, binOp, lhs, rhs, resultType) ==
    LET compare == binOp \in {"LeftAngleBracket", "LeftAngleBracketEqual",
                              "RightAngleBracket", "RightAngleBracketEqual",
                              "Equal", "NotEqual"}
        op == CASE binOp = "Plus" -> IF resultType = "double" THEN "fadd" ELSE "add"
                [] binOp = "Minus" -> IF resultType = "double" THEN "fsub" ELSE "sub"
                [] binOp = "Star" -> IF resultType = "double" THEN "fmul" ELSE "mul"
                [] binOp = "Slash" -> IF resultType = "double" THEN "fdiv" ELSE "sdiv"
                [] compare -> createComparePredicate(binOp, resultType = "double")
        ty == IF compare THEN "i1" ELSE resultType
    IN  IF lhs.what = "const" /\ rhs.what = "const"
        THEN Return(st, Value(ty, "const"))
        ELSE Return(Create(st, op, ty, NoSlot, ""), Value(ty, "inst"))

visitBinOp(node, st) ==
    Then(generate(node.lhs, st), LAMBDA l :
    Then(generate(node.rhs, l), LAMBDA r :
    IF l.value.what = "null" \/ r.value.what = "null" THEN Return(r, NullValue)
    ELSE IF l.value.ty = "ptr" \/ r.value.ty = "ptr"
    THEN Raise(r, "Unsupported operation", "")
    ELSE IF getResultType(l.value.ty, r.value.ty) = "null"
    THEN Raise(r, "Type mismatch", "")
    ELSE
    Then(tryCastValue(r, l.value, getResultType(l.value.ty, r.value.ty)), LAMBDA cl :
    Then(tryCastValue(cl, r.value, getResultType(l.value.ty, r.value.ty)), LAMBDA cr :
    IF node.op \in {"Plus", "Minus", "Star", "Slash", "LeftAngleBracket",
                    "LeftAngleBracketEqual", "RightAngleBracket",
                    "RightAngleBracketEqual", "Equal", "NotEqual"}
    THEN createBinary(cr, node.op, cl.value, cr.value,
                      getResultType(l.value.ty, r.value.ty))
    ELSE Return(cr, NullValue)))))

visitProtoFunctionStatement(node, st) ==
    LET serial == Cardinality({i \in 1..Len(st.module.functions) :
                                   st.module.functions[i].name = node.name})
    IN  Return([st EXCEPT !.module.functions = Append(@, FunctionOf(node, serial))],
               Value("ptr", "func"))

\* getModuleFunction: the state after it and the index of the function (0
\* for nullptr) as the value's place in module.functions.
getModuleFunction(name, st) ==
    IF getFunction(st.module, name) # 0 THEN st
    ELSE IF \E proto \in st.mc.functions : proto.name = name
    THEN generate(CHOOSE proto \in st.mc.functions : proto.name = name, st)
    ELSE st

\* The for loop of visit(const FunctionCallNode *).
generateArgs(args, i, calleeFunc, st) ==
    IF i > Len(args) THEN st
    ELSE Then(generate(args[i], st), LAMBDA arg :
         IF i <= Len(calleeFunc.paramTypes)
         THEN Then(tryCastValue(arg, arg.value, calleeFunc.paramTypes[i]),
                   LAMBDA cast : generateArgs(args, i + 1, calleeFunc, cast))
         ELSE generateArgs(args, i + 1, calleeFunc, arg))

\* The test before the arguments are emitted.
argumentMismatchIgnored(calleeFunc, node) == FALSE

argumentMismatch(calleeFunc, node) ==
    ~calleeFunc.isVarArg /\ Len(calleeFunc.paramTypes) # Len(node.args)

visitFunctionCall(node, st) ==
    Then(getModuleFunction(node.callee.name, st), LAMBDA found :
    IF getFunction(found.module, node.callee.name) = 0
    THEN Raise(found, "Undefined reference", node.callee.name)
    ELSE IF argumentMismatch(Resolved(found, node.callee.name), node)
    THEN Raise(found, "Argument mismatch error", "")
    ELSE Then(generateArgs(node.args, 1, Resolved(found, node.callee.name), found),
              LAMBDA args :
                  Return(Create(args, "call",
                                Resolved(found, node.callee.name).ret, NoSlot,
                                node.callee.name),
                         Value(Resolved(found, node.callee.name).ret, "inst"))))

visitAssignment(node, st) ==
    Then(generate(node.rvalue, st), LAMBDA init :
    IF init.builder.block = 0 THEN Return(init, NullValue)
    ELSE IF lookup(init.mc.symTable, node.name) # NoSlot
    THEN Then(tryCastValue(init, init.value, lookup(init.mc.symTable, node.name).ty),
              LAMBDA cast :
         Then(insert(Create(cast, "store", cast.value.ty,
                            lookup(init.mc.symTable, node.name), ""),
                     node.name, lookup(init.mc.symTable, node.name)),
              LAMBDA bound :
                  Return(bound, Value("ptr", "inst"))))
    ELSE IF findGlobal(init.mc.gValues, node.name) # NoSlot
    THEN IF findGlobal(init.mc.gValues, node.name).isConstant
         THEN Raise(init, "is constant", node.name)
         ELSE Then(tryCastValue(init, init.value,
                                findGlobal(init.mc.gValues, node.name).ty),
                   LAMBDA cast :
                       Return(Create(cast, "store", cast.value.ty,
                                     findGlobal(init.mc.gValues, node.name), ""),
                              Value("ptr", "global")))
    ELSE Raise(init, "Undefined variable", node.name))

\* The global replaces the mc.gValues entry of its name; it is created
\* constant.
genGlobalDeclaration(node, type, init, st) ==
    IF init.what # "const"
    THEN Raise(st, "Global variable initializer must be constant", node.name)
    ELSE Return([st EXCEPT !.mc.gValues =
                               {g \in @ : g.name # node.name}
                                   \cup {Slot("global", 0, node.name, type, TRUE)}],
                Value("ptr", "global"))

\* The alloca is identified by the number of instructions created before it.
genLocalDeclaration(node, type, init, st) ==
    InsertPointGuard(st.builder,
        LET entryBB == getEntryBlock(st.module, st.builder.block)
            alloca  == Slot("local", Len(st.module.code) + 1, node.name, type, FALSE)
            atEntry == [st EXCEPT !.builder = InsertPoint(entryBB, "first")]
        IN  Then(tryCastValue(Create(atEntry, "alloca", type, alloca, ""), init, type),
                 LAMBDA cast :
                     IF lookup(cast.mc.symTable, node.name) # NoSlot
                     THEN Raise(Create(cast, "store", type, alloca, ""),
                                "Redeclaration of variable", node.name)
                     ELSE Then(insert(Create(cast, "store", type, alloca, ""),
                                      node.name, alloca),
                               LAMBDA bound : Return(bound, Value("ptr", "inst")))))

\* With no initializer the value is the null constant of the type.
visitDeclaration(node, st) ==
    Then(IF node.init # <<>>
         THEN Then(generate(node.init[1], st), LAMBDA init :
                   IF init.value.what = "null"
                   THEN Raise(init, "Failed to generate initializer", node.name)
                   ELSE init)
         ELSE Return(st, Value(generateType(node.type), "const")),
         LAMBDA init :
             IF init.builder.block = 0
             THEN genGlobalDeclaration(node, generateType(node.type), init.value, init)
             ELSE Traced("genLocalDeclaration", node.name, 0, init,
                         genLocalDeclaration(node, generateType(node.type),
                                             init.value, init)))

visitReturn(node, st) ==
    IF node.expr # <<>>
    THEN Then(generate(node.expr[1], st), LAMBDA expr :
              Return(Create(expr, "ret",
                            IF expr.value.what = "null" THEN "void" ELSE expr.value.ty,
                            NoSlot, ""),
                     Value("void", "term")))
    ELSE Return(Create(st, "ret", "void", NoSlot, ""), Value("void", "term"))

\* One parameter of processFunctionParameters' loop: alloca, store, then
\* the binding.
RECURSIVE processFunctionParameters(_, _, _)
processFunctionParameters(func, i, st) ==
    IF i > Len(func.paramNames) THEN st
    ELSE LET alloca == Slot("local", Len(st.module.code) + 1, func.paramNames[i],
                            func.paramTypes[i], FALSE)
             stored == Create(Create(st, "alloca", func.paramTypes[i], alloca, ""),
                              "store", func.paramTypes[i], alloca, "")
         IN  IF lookup(st.mc.symTable, func.paramNames[i]) # NoSlot
             THEN Raise(stored, "Duplicate parameter name", func.paramNames[i])
             ELSE Then(insert(stored, func.paramNames[i], alloca), LAMBDA bound :
                       processFunctionParameters(func, i + 1, bound))

\* What generateBasicBlock's loop reads from the value of a statement:
\* "terminator", "plain", or "crash".  dyn_cast of a null pointer is
\* undefined.
dynCastInstruction(value, platform) ==
    IF value.what = "null" THEN platform.nullValue
    ELSE IF value.what = "term" THEN "terminator"
    ELSE "plain"

\* The loop of generateBasicBlock; the value of the result is a terminator
\* exactly when hasTerminator is set.
generateStatements(statements, i, st) ==
    IF i > Len(statements) THEN Return(st, NullValue)
    ELSE Then(generate(statements[i], st), LAMBDA val :
         IF dynCastInstruction(val.value, val.platform) = "crash" THEN Crash(val)
         ELSE IF dynCastInstruction(val.value, val.platform) = "terminator"
         THEN Return(val, Value("void", "term"))
         ELSE generateStatements(statements, i + 1, val))

\* tmpBuilder inserts at the end of basicBlock, wherever the builder is.
endBasicBlock(basicBlock, parentFunction, st) ==
    IF st.value.what = "term" THEN st
    ELSE IF parentFunction.ret = "void"
    THEN [st EXCEPT !.module.code =
                        Append(@, Instruction("ret", basicBlock, "void", NoSlot, ""))]
    ELSE Raise([st EXCEPT !.module.code =
                              Append(@, Instruction("unreachable", basicBlock, "void",
                                                    NoSlot, ""))],
               "Missing return in non-void function", parentFunction.name)

\* The scope is left where the scope's statements are all emitted.
leaveScopeKept(st) == st

leaveScope(st) == [st EXCEPT !.mc.symTable = exitScope(@)]

\* generateBasicBlock.  prologue is <<>> or <<func>>; parent is the index
\* of parentFunction in module.functions.
generateBasicBlock(statements, prologue, parent, st) ==
    InsertPointGuard(st.builder,
        Then(Then(Then(IF prologue = <<>>
                       THEN [st EXCEPT !.module.blocks = Append(@, parent),
                                       !.mc.symTable = enterScope(@),
                                       !.builder = InsertPoint(Len(st.module.blocks) + 1,
                                                               "end")]
                       ELSE processFunctionParameters(
                                prologue[1], 1,
                                [st EXCEPT !.module.blocks = Append(@, parent),
                                           !.mc.symTable = enterScope(@),
                                           !.builder = InsertPoint(
                                                           Len(st.module.blocks) + 1,
                                                           "end")]),
                       LAMBDA entered : generateStatements(statements, 1, entered)),
                  LAMBDA body : endBasicBlock(Len(st.module.blocks) + 1,
                                              st.module.functions[parent], body)),
             LAMBDA ended : leaveScope(ended)))

\* llvm::verifyFunction, as far as the emitted functions can fail it: a
\* ret whose operand type is not the function's return type.
verifyFunction(module_, func) ==
    \E i \in 1..Len(module_.code) :
        /\ module_.code[i].op = "ret"
        /\ module_.code[i].block # 0
        /\ module_.blocks[module_.code[i].block] = func
        /\ module_.code[i].ty # module_.functions[func].ret

visitFunction(node, st) ==
    Then(generate(node.proto, st), LAMBDA proto :
    Then(Traced("generateBasicBlock", node.proto.name, 0, proto,
                generateBasicBlock(node.body.statements,
                                   <<proto.module.functions[Len(proto.module.functions)]>>,
                                   Len(proto.module.functions), proto)),
         LAMBDA body :
             IF verifyFunction(body.module, Len(proto.module.functions))
             THEN Raise(body, "Function verification failed", node.proto.name)
             ELSE Return(body, Value("ptr", "func"))))

visitBlock(node, st) ==
    IF st.builder.block = 0
    THEN Raise(st, "Block generation outside of function context", "")
    ELSE Then(Traced("generateBasicBlock", "", 0, st,
                     generateBasicBlock(node.statements, <<>>,
                                        st.module.blocks[st.builder.block], st)),
              LAMBDA body : Return(body, NullValue))

visitLoopCond(node, st) == Raise(st, "not implemented", "")

\* NodeVisitor dispatch.
visit(node, st) ==
    CASE node.kind = "Ident" -> Traced("visitIdent", node.name, 0, st, visitIdent(node, st))
      [] node.kind = "Function" -> visitFunction(node, st)
      [] node.kind = "Number" -> visitNumber(node, st)
      [] node.kind = "String" -> visitString(node, st)
      [] node.kind = "Boolean" -> visitBoolean(node, st)
      [] node.kind = "BinOp" -> visitBinOp(node, st)
      [] node.kind = "ProtoFunction" -> visitProtoFunctionStatement(node, st)
      [] node.kind = "Assignment" ->
             Traced("visitAssignment", node.name, 0, st, visitAssignment(node, st))
      [] node.kind = "Call" ->
             Traced("visitFunctionCall", node.callee.name, Len(node.args), st,
                    visitFunctionCall(node, st))
      [] node.kind = "Block" -> visitBlock(node, st)
      [] node.kind = "Declaration" -> visitDeclaration(node, st)
      [] node.kind = "Return" -> visitReturn(node, st)
      [] node.kind = "LoopCond" -> visitLoopCond(node, st)

\* LLVMCodegen::generate: a fresh visitor, whose value_ is null, visits the
\* node.
generate(node, st) == visit(node, [st EXCEPT !.value = NullValue])

\* The emitter at rest, while the front end runs.
NoAnswer == [none |-> TRUE]

IdleCodegen ==
    [family |-> "idle", unit |-> <<>>, next |-> 1, platform |-> [nullValue |-> "crash", rebind |-> FALSE],
     ok |-> TRUE, msg |-> "", subject |-> "", trace |-> <<>>,
     query |-> NoAnswer, answer |-> NoAnswer]

\* The first program of the repository, src/main.cpp, before it is started.
IdleMain ==
    /\ reader = [pc |-> "idle"]
    /\ jit = [pc |-> "idle"]
    /\ run = [pc |-> "idle"]

IdleEmitter ==
    /\ IdleMain
    /\ mc = EmptyModuleContext
    /\ module = EmptyModule
    /\ builder = NoInsertPoint
    /\ codegen = IdleCodegen

(***************************************************************************)
(* The driver: pulls one top-level node at a time until end of stream or   *)
(* the first parse error.  attempt records the tryParseAssignment step     *)
(* the latest nextNode started with: the lexer it was called on and what   *)
(* it returned.  input describes the source text under test.               *)
(***************************************************************************)
NoAttempt == [start |-> Lexer(<<>>), result |-> Ok(NoNode, Lexer(<<>>))]

NoReport == [lines |-> <<>>, padding |-> [hi |-> 0, lo |-> 0], marks |-> 0, msg |-> ""]

Start(in, toks) ==
    /\ input = in
    /\ lexer = Parser(toks)
    /\ nodes = <<>>
    /\ error = ""
    /\ attempt = NoAttempt
    /\ report = NoReport
    /\ IdleEmitter

NextNode ==
    /\ error = ""
    /\ hasNextNode(lexer)
    /\ LET result == nextNode(lexer)
       IN  /\ attempt' = [start |-> lexer, result |-> tryParseAssignment(lexer, TRUE)]
           /\ lexer' = result.lx
           /\ nodes' = IF result.ok THEN Append(nodes, result.node) ELSE nodes
           /\ error' = IF result.ok THEN "" ELSE result.msg
    /\ UNCHANGED <<reader, jit, run, input, report, mc, module, builder, codegen>>

\* The parser reports an error at a token of the text read so far.
MakeErrorMsg ==
    /\ input.family = "error"
    /\ report = NoReport
    /\ report' = makeErrorMsg(readText(input.text, input.read),
                              [startPosition |-> input.startPosition,
                               endPosition |-> input.endPosition],
                              "Unexpected token")
    /\ UNCHANGED <<reader, jit, run, input, lexer, nodes, error, attempt, mc, module, builder, codegen>>

\* A parse has ended: a node was returned or an error was raised.
Parsed == nodes # <<>> \/ error # ""

\* The first call of nextNode, and no other, has ended.
ParsedFirst == attempt.start.pos = 1

(***************************************************************************)
(* Token streams.                                                          *)
(***************************************************************************)
Id(name) == TokV("Identifier", name)

Num(lexeme) == TokV("Number", lexeme)

Semicolon == Tok("Semicolon")

Comma == Tok("Comma")

LeftParenthesis == Tok("LeftParenthesis")

RightParenthesis == Tok("RightParenthesis")

LeftCurlyBracket == Tok("LeftCurlyBracket")

RightCurlyBracket == Tok("RightCurlyBracket")

Dec(m, e) == [m |-> m, e |-> e]

a == <<"a">>

b == <<"b">>

c == <<"c">>

(***************************************************************************)
(* SpecExpr: every expression statement `e ;` with e a string of at most   *)
(* MaxExprLen tokens of ExprAlphabet, and the expressions the              *)
(* specification names.                                                    *)
(***************************************************************************)
MaxExprLen == 5

ExprAlphabet ==
    {Id(a), Id(b), Num(<<"1">>), Tok("Plus"), Tok("Minus"), Tok("Star"),
     Tok("LeftAngleBracket"), Tok("LogicalAnd"), LeftParenthesis,
     RightParenthesis}

\* -1-21.2;
SeedBinExpr == <<Tok("Minus"), Num(<<"1">>), Tok("Minus"), Num(<<"2", "1", ".", "2">>)>>

\* a * b + c;
SeedPrecedence == <<Id(a), Tok("Star"), Id(b), Tok("Plus"), Id(c)>>

\* A chain of two comparison operators and a chain of two logical operators.
SeedChains ==
    {<<Id(a), Tok("LeftAngleBracket"), Id(b), Tok("Equal"), Id(c)>>,
     <<Id(a), Tok("LogicalAnd"), Id(b), Tok("LogicalOr"), Id(c)>>}

InitExpr ==
    \/ \E n \in 1..MaxExprLen :
           \E e \in [1..n -> ExprAlphabet] :
               Start([family |-> "expr"], e \o <<Semicolon>>)
    \/ \E e \in {SeedBinExpr, SeedPrecedence} \cup SeedChains :
           Start([family |-> "expr"], e \o <<Semicolon>>)

SpecExpr == InitExpr /\ [][NextNode]_vars

(***************************************************************************)
(* What the claims about expressions read off a token stream and a tree.   *)
(***************************************************************************)
SignTypes == {"Plus", "Minus"}

ComparisonTypes ==
    {"LeftAngleBracket", "LeftAngleBracketEqual", "RightAngleBracket",
     "RightAngleBracketEqual", "Equal", "NotEqual"}

LogicalTypes == {"LogicalAnd", "LogicalOr"}

\* The decimal value a number lexeme of the token streams denotes.
LexemeValue(lexeme) ==
    CASE lexeme = <<"1">> -> Dec(1, 0)
      [] lexeme = <<"2">> -> Dec(2, 0)
      [] lexeme = <<"0">> -> Dec(0, 0)
      [] lexeme = <<"1", "2", ".", "1">> -> Dec(121, 1)
      [] lexeme = <<"1", ".", "2">> -> Dec(12, 1)
      [] lexeme = <<"2", "1", ".", "2">> -> Dec(212, 1)

\* A token that ends an atom: a sign after it is a binary operator.
EndsAtom(tok) == tok.type \in {"Number", "Identifier", "RightParenthesis"}

StartsFactor(toks, i) == i = 1 \/ ~EndsAtom(toks[i - 1])

\* The sign at i starts a factor and is immediately followed by a number.
SignOfNumber(toks, i) ==
    /\ toks[i].type \in SignTypes
    /\ StartsFactor(toks, i)
    /\ i < Len(toks)
    /\ toks[i + 1].type = "Number"

\* The signed values of the number tokens, in source order.
ExpectedNumbers(toks) ==
    LET at == {i \in 1..Len(toks) : toks[i].type = "Number"}
        nth[k \in 0..Cardinality(at)] ==
            IF k = 0 THEN 0
            ELSE CHOOSE i \in at : i > nth[k - 1] /\ \A j \in at : j > nth[k - 1] => i <= j
    IN  [k \in 1..Cardinality(at) |->
            LET i == nth[k]
                v == LexemeValue(toks[i].value)
            IN  IF i > 1 /\ SignOfNumber(toks, i - 1) /\ toks[i - 1].type = "Minus"
                THEN Dec(0 - v.m, v.e)
                ELSE v]

RECURSIVE NumberValues(_)
RECURSIVE NumberValuesOfAll(_)
NumberValues(node) ==
    CASE node.kind = "Number" -> <<node.value>>
      [] node.kind = "BinOp" -> NumberValues(node.lhs) \o NumberValues(node.rhs)
      [] node.kind = "UnaryOp" -> NumberValues(node.operand)
      [] node.kind = "Call" -> NumberValuesOfAll(node.args)
      [] OTHER -> <<>>

NumberValuesOfAll(seq) ==
    IF seq = <<>> THEN <<>>
    ELSE NumberValues(Head(seq)) \o NumberValuesOfAll(Tail(seq))

\* The numbers of prefix UnaryOp nodes and of BinOp nodes whose operator is a sign.
RECURSIVE SignNodes(_, _)
RECURSIVE SignNodesOfAll(_, _)
SignNodes(node, kind) ==
    CASE node.kind = "BinOp" ->
            (IF kind = "BinOp" /\ node.op \in SignTypes THEN 1 ELSE 0)
            + SignNodes(node.lhs, kind) + SignNodes(node.rhs, kind)
      [] node.kind = "UnaryOp" ->
            (IF kind = "UnaryOp" /\ node.op \in SignTypes THEN 1 ELSE 0)
            + SignNodes(node.operand, kind)
      [] node.kind = "Call" -> SignNodesOfAll(node.args, kind)
      [] OTHER -> 0

SignNodesOfAll(seq, kind) ==
    IF seq = <<>> THEN 0
    ELSE SignNodes(Head(seq), kind) + SignNodesOfAll(Tail(seq), kind)

IsBinOpOf(node, ops) == node.kind = "BinOp" /\ node.op \in ops

\* No operand of a '*' or '/' node is an additive, comparison or logical BinOp.
RECURSIVE FactorsOnly(_)
RECURSIVE FactorsOnlyAll(_)
FactorsOnly(node) ==
    CASE node.kind = "BinOp" ->
            /\ node.op \in {"Star", "Slash"} =>
                   /\ ~IsBinOpOf(node.lhs, SignTypes \cup ComparisonTypes \cup LogicalTypes)
                   /\ ~IsBinOpOf(node.rhs, SignTypes \cup ComparisonTypes \cup LogicalTypes)
            /\ FactorsOnly(node.lhs)
            /\ FactorsOnly(node.rhs)
      [] node.kind = "UnaryOp" -> FactorsOnly(node.operand)
      [] node.kind = "Call" -> FactorsOnlyAll(node.args)
      [] OTHER -> TRUE

FactorsOnlyAll(seq) == \A i \in 1..Len(seq) : FactorsOnly(seq[i])

\* The node of an atom token.
AtomNode(tok) ==
    IF tok.type = "Identifier" THEN IdentNode(tok.value)
    ELSE NumberNode(LexemeValue(tok.value))

IsAtom(tok) == tok.type \in {"Identifier", "Number"}

SameLevel(op1, op2) ==
    \/ op1 \in ComparisonTypes /\ op2 \in ComparisonTypes
    \/ op1 \in LogicalTypes /\ op2 \in LogicalTypes

\* The expression statement `e ;` was parsed to one node.
ExprParsed == input.family = "expr" /\ Len(nodes) = 1

(***************************************************************************)
(* C2: a sign that starts a factor and is immediately followed by a Number *)
(* token is absorbed into the Number node, with the sign applied; every    *)
(* other sign that starts a factor is a prefix UnaryOp and every sign that *)
(* follows an atom is a BinOp.  -1-21.2 is BinOp(-, Number -1, Number 21.2)*)
(***************************************************************************)
C2_SignAbsorbed ==
    /\ ExprParsed =>
           /\ NumberValues(nodes[1]) = ExpectedNumbers(lexer.toks)
           /\ SignNodes(nodes[1], "UnaryOp") =
                  Cardinality({i \in 1..Len(lexer.toks) :
                                  /\ lexer.toks[i].type \in SignTypes
                                  /\ StartsFactor(lexer.toks, i)
                                  /\ ~SignOfNumber(lexer.toks, i)})
           /\ SignNodes(nodes[1], "BinOp") =
                  Cardinality({i \in 1..Len(lexer.toks) :
                                  /\ lexer.toks[i].type \in SignTypes
                                  /\ ~StartsFactor(lexer.toks, i)})
    /\ (lexer.toks = SeedBinExpr \o <<Semicolon>> /\ lexer.pos > 1) =>
           nodes = <<BinOpNode("Minus", NumberNode(Dec(-1, 0)),
                               NumberNode(Dec(212, 1)))>>

\* -1-21.2; has been parsed: one absorbed sign and one binary sign.
C2_Witness ==
    /\ lexer.toks = SeedBinExpr \o <<Semicolon>>
    /\ Len(nodes) = 1
    /\ SignNodes(nodes[1], "BinOp") = 1
    /\ NumberValues(nodes[1]) = <<Dec(-1, 0), Dec(212, 1)>>

(***************************************************************************)
(* C3: in the tree of an unparenthesised expression no operand of a '*' or *)
(* '/' node is an additive, comparison or logical BinOp; a * b + c is the  *)
(* sum of the product a * b and c.                                         *)
(***************************************************************************)
C3_Precedence ==
    /\ (/\ ExprParsed
        /\ \A i \in 1..Len(lexer.toks) :
               lexer.toks[i].type \notin {"LeftParenthesis", "RightParenthesis"})
       => FactorsOnly(nodes[1])
    /\ (lexer.toks = SeedPrecedence \o <<Semicolon>> /\ lexer.pos > 1) =>
           nodes = <<BinOpNode("Plus",
                               BinOpNode("Star", IdentNode(a), IdentNode(b)),
                               IdentNode(c))>>

(***************************************************************************)
(* C4: x op1 y op2 z, with x, y, z atoms and op1, op2 both comparison or   *)
(* both logical operators, is BinOp(op2, BinOp(op1, x, y), z).             *)
(***************************************************************************)
C4_LeftFold ==
    LET toks == lexer.toks
    IN  (/\ input.family = "expr"
         /\ lexer.pos > 1
         /\ Len(toks) = 6
         /\ IsAtom(toks[1]) /\ IsAtom(toks[3]) /\ IsAtom(toks[5])
         /\ SameLevel(toks[2].type, toks[4].type))
        => nodes = <<BinOpNode(toks[4].type,
                               BinOpNode(toks[2].type, AtomNode(toks[1]),
                                         AtomNode(toks[3])),
                               AtomNode(toks[5]))>>

(***************************************************************************)
(* Spec: statements.  The sources are built from tables of forms, each a   *)
(* token string with the node it denotes, so that the expected tree of a   *)
(* source is known from how the source was put together.                   *)
(***************************************************************************)
Form(toks, node) == [toks |-> toks, node |-> node]

Number1 == NumberNode(Dec(1, 0))

PrintCall(lexeme) ==
    <<Id(<<"p", "r", "i", "n", "t">>), LeftParenthesis, Num(lexeme),
      RightParenthesis, Semicolon>>

PrintCallNode(lexeme) ==
    FunctionCallNode(IdentNode(<<"p", "r", "i", "n", "t">>),
                     <<NumberNode(LexemeValue(lexeme))>>)

\* 1   12.1   id1   -1.2   (1+2)
ArgForms ==
    <<Form(<<Num(<<"1">>)>>, Number1),
      Form(<<Num(<<"1", "2", ".", "1">>)>>, NumberNode(Dec(121, 1))),
      Form(<<Id(<<"i", "d", "1">>)>>, IdentNode(<<"i", "d", "1">>)),
      Form(<<Tok("Minus"), Num(<<"1", ".", "2">>)>>, NumberNode(Dec(-12, 1))),
      Form(<<LeftParenthesis, Num(<<"1">>), Tok("Plus"), Num(<<"2">>),
             RightParenthesis>>,
           BinOpNode("Plus", Number1, NumberNode(Dec(2, 0))))>>

\* a;   varPtr = (1+2) * (2+id2);   print(1);
StmtForms ==
    <<Form(<<Id(a), Semicolon>>, IdentNode(a)),
      Form(<<Id(<<"v", "a", "r", "P", "t", "r">>), Tok("Assignment"),
             LeftParenthesis, Num(<<"1">>), Tok("Plus"), Num(<<"2">>),
             RightParenthesis, Tok("Star"), LeftParenthesis, Num(<<"2">>),
             Tok("Plus"), Id(<<"i", "d", "2">>), RightParenthesis, Semicolon>>,
           AssignmentNode(<<"v", "a", "r", "P", "t", "r">>,
               BinOpNode("Star",
                         BinOpNode("Plus", Number1, NumberNode(Dec(2, 0))),
                         BinOpNode("Plus", NumberNode(Dec(2, 0)),
                                   IdentNode(<<"i", "d", "2">>))))),
      Form(PrintCall(<<"1">>), PrintCallNode(<<"1">>))>>

\* (1)   a   a < 1
CondForms ==
    <<Form(<<LeftParenthesis, Num(<<"1">>), RightParenthesis>>, Number1),
      Form(<<Id(a)>>, IdentNode(a)),
      Form(<<Id(a), Tok("LeftAngleBracket"), Num(<<"1">>)>>,
           BinOpNode("LeftAngleBracket", IdentNode(a), Number1))>>

\* { print(1); }   { print(0); }   b;   { }
BlockForms ==
    <<Form(<<LeftCurlyBracket>> \o PrintCall(<<"1">>) \o <<RightCurlyBracket>>,
           BlockNode(<<PrintCallNode(<<"1">>)>>)),
      Form(<<LeftCurlyBracket>> \o PrintCall(<<"0">>) \o <<RightCurlyBracket>>,
           BlockNode(<<PrintCallNode(<<"0">>)>>)),
      Form(<<Id(b), Semicolon>>, BlockNode(<<IdentNode(b)>>)),
      Form(<<LeftCurlyBracket, RightCurlyBracket>>, BlockNode(<<>>))>>

ParamNames == <<<<"i", "d", "1">>, <<"i", "d", "2">>, <<"i", "d", "3">>>>

\* The token strings (nodes) of the forms picked by a sequence of indices.
RECURSIVE ToksOf(_, _)
ToksOf(forms, picks) ==
    IF picks = <<>> THEN <<>>
    ELSE forms[Head(picks)].toks \o ToksOf(forms, Tail(picks))

NodesOf(forms, picks) == [i \in 1..Len(picks) |-> forms[picks[i]].node]

MaxArgs == 3

MaxParams == 2

MaxBodyStmts == 2

MaxElseIf == 1

MaxStmtLen == 5

MaxTextLen == 5

\* callee ( item , ... , item ) ;  where item 0 is an empty slot
RECURSIVE ItemToks(_)
ItemToks(items) ==
    IF items = <<>> THEN <<>>
    ELSE (IF Head(items) = 0 THEN <<>> ELSE ArgForms[Head(items)].toks)
         \o (IF Len(items) > 1 THEN <<Comma>> ELSE <<>>)
         \o ItemToks(Tail(items))

CallToks(in) ==
    <<Id(in.callee), LeftParenthesis>> \o ItemToks(in.items)
        \o <<RightParenthesis, Semicolon>>

\* foo(1, 12.1, id1, -1.2, (1+2));
SeedCall == [family |-> "call", callee |-> <<"f", "o", "o">>, items |-> <<1, 2, 3, 4, 5>>]

InitCall ==
    \/ \E n \in 0..MaxArgs :
           \E items \in [1..n -> 0..Len(ArgForms)] :
               LET in == [family |-> "call", callee |-> <<"f", "o", "o">>,
                          items |-> items]
               IN  Start(in, CallToks(in))
    \/ Start(SeedCall, CallToks(SeedCall))

\* def name ( p , ... , p ) ;   def name ( p , ... , p ) { statements }
RECURSIVE ParamToks(_)
ParamToks(params) ==
    IF params = <<>> THEN <<>>
    ELSE <<Id(Head(params))>>
         \o (IF Len(params) > 1 THEN <<Comma>> ELSE <<>>)
         \o ParamToks(Tail(params))

DefToks(in) ==
    <<Tok("FunctionDefinition"), Id(in.name), LeftParenthesis>>
        \o ParamToks(in.params) \o <<RightParenthesis>>
        \o (IF in.hasBody
            THEN <<LeftCurlyBracket>> \o ToksOf(StmtForms, in.body)
                     \o <<RightCurlyBracket>>
            ELSE <<Semicolon>>)

InitDef ==
    \E n \in 0..MaxParams, k \in 0..MaxBodyStmts, hasBody \in BOOLEAN :
        \E params \in [1..n -> 1..Len(ParamNames)], body \in [1..k -> 1..Len(StmtForms)] :
            LET in == [family |-> "def", name |-> <<"t", "e", "s", "t">>,
                       params |-> [i \in 1..n |-> ParamNames[params[i]]],
                       hasBody |-> hasBody,
                       body |-> IF hasBody THEN body ELSE <<>>]
            IN  Start(in, DefToks(in))

\* if cond block (else if cond block)* [else block] [else]
RECURSIVE ElseIfToks(_)
ElseIfToks(branches) ==
    IF branches = <<>> THEN <<>>
    ELSE <<Tok("Else"), Tok("If")>> \o CondForms[Head(branches).cond].toks
         \o BlockForms[Head(branches).block].toks \o ElseIfToks(Tail(branches))

IfToks(in) ==
    <<Tok("If")>> \o CondForms[Head(in.branches).cond].toks
        \o BlockForms[Head(in.branches).block].toks
        \o ElseIfToks(Tail(in.branches))
        \o (IF in.else = 0 THEN <<>> ELSE <<Tok("Else")>> \o BlockForms[in.else].toks)

InitIf ==
    \E n \in 1..(1 + MaxElseIf), else \in 0..Len(BlockForms), extra \in BOOLEAN :
        \E branches \in [1..n -> [cond : 1..Len(CondForms), block : 1..Len(BlockForms)]] :
            LET in == [family |-> "if", branches |-> branches, else |-> else,
                       extra |-> extra /\ else # 0]
            IN  Start(in, IfToks(in) \o (IF in.extra THEN <<Tok("Else")>> ELSE <<>>))

\* do { statements } while ( cond ) [;] [statement]
DoToks(in) ==
    <<Tok("DoLoop"), LeftCurlyBracket>> \o ToksOf(StmtForms, in.body)
        \o <<RightCurlyBracket, Tok("WhileLoop"), LeftParenthesis>>
        \o CondForms[in.cond].toks \o <<RightParenthesis>>
        \o (IF in.semi THEN <<Semicolon>> ELSE <<>>)

InitDo ==
    \E k \in 0..MaxBodyStmts, cond \in 1..Len(CondForms), semi \in BOOLEAN,
       follow \in 0..Len(StmtForms) :
        \E body \in [1..k -> 1..Len(StmtForms)] :
            LET in == [family |-> "do", body |-> body, cond |-> cond,
                       semi |-> semi, follow |-> follow]
            IN  Start(in, DoToks(in)
                          \o (IF follow = 0 THEN <<>> ELSE StmtForms[follow].toks))

\* Every token string of at most MaxStmtLen tokens of StmtAlphabet.
StmtAlphabet ==
    {Id(a), Id(b), Tok("Assignment"), Num(<<"1">>), Semicolon, Tok("Plus")}

\* varName=2*(1-2);
SeedVarDefinition ==
    <<Id(<<"v", "a", "r", "N", "a", "m", "e">>), Tok("Assignment"), Num(<<"2">>),
      Tok("Star"), LeftParenthesis, Num(<<"1">>), Tok("Minus"), Num(<<"2">>),
      RightParenthesis, Semicolon>>

InitStmt ==
    \/ \E n \in 1..MaxStmtLen :
           \E toks \in [1..n -> StmtAlphabet] : Start([family |-> "stmt"], toks)
    \/ Start([family |-> "stmt"], SeedVarDefinition)

\* A token [startPosition, endPosition] on one line of a text of which the
\* lexer has read the first `read` characters, the whole token among them.
InitError ==
    \E n \in 1..MaxTextLen :
        \E text \in [1..n -> {"a", "\n"}], startPosition \in 0..(n - 1),
           endPosition \in 0..(n - 1), read \in 1..n :
            /\ startPosition <= endPosition
            /\ endPosition < read
            /\ \A i \in startPosition..endPosition : text[i + 1] # "\n"
            /\ input = [family |-> "error", text |-> text, read |-> read,
                        startPosition |-> startPosition,
                        endPosition |-> endPosition]
            /\ lexer = Parser(<<>>)
            /\ nodes = <<>>
            /\ error = ""
            /\ attempt = NoAttempt
            /\ report = NoReport
            /\ IdleEmitter

\* def f, then any token where the ( is expected, then up to MaxDefToks
\* tokens, each an identifier, a number or a comma, then ) ;
MaxDefToks == 3

DefOpeners == {LeftParenthesis, Comma, LeftCurlyBracket, Id(<<"x">>), Num(<<"1">>)}

DefListToks == {Id(<<"x">>), Num(<<"1">>), Comma}

InitDefToks ==
    \E n \in 0..MaxDefToks, opener \in DefOpeners :
        \E list \in [1..n -> DefListToks] :
            Start([family |-> "deftoks", opener |-> opener, list |-> list],
                  <<Tok("FunctionDefinition"), Id(<<"f">>), opener>> \o list
                      \o <<RightParenthesis, Semicolon>>)

\* for ( init ; cond ; step ) { }  followed by nothing, by  b ;  or by  a ; b ;
ForInits == {<<>>, <<Id(a)>>, <<Id(a), Tok("Assignment"), Num(<<"1">>)>>, <<Num(<<"1">>)>>}

ForConds == {<<Id(a)>>, <<Tok("Minus"), Num(<<"1">>)>>, <<Tok("Minus"), Id(a)>>}

InitFor ==
    \E init \in ForInits, cond \in ForConds, step \in ForConds,
       rest \in {<<>>, <<Id(b), Semicolon>>, <<Id(a), Semicolon, Id(b), Semicolon>>} :
        Start([family |-> "for", init |-> init],
              <<Tok("ForLoop"), LeftParenthesis>> \o init \o <<Semicolon>> \o cond
                  \o <<Semicolon>> \o step
                  \o <<RightParenthesis, LeftCurlyBracket, RightCurlyBracket>>
                  \o rest)

Init ==
    \/ InitStmt \/ InitCall \/ InitDef \/ InitIf \/ InitDo \/ InitError
    \/ InitDefToks \/ InitFor

Next == NextNode \/ MakeErrorMsg

Spec == Init /\ [][Next]_vars

(***************************************************************************)
(* C1: tryParseAssignment called on an Identifier followed by '=' returns  *)
(* the Assignment whose name is the lexeme of that identifier and whose    *)
(* rvalue is the expression after the '='; called on an Identifier         *)
(* followed by any other token it returns no node and leaves the lexer on  *)
(* the identifier it started on.  varName=2*(1-2); is the Assignment of    *)
(* 2 * (1 - 2) to varName.                                                 *)
(***************************************************************************)
C1_TryParseAssignment ==
    LET start  == attempt.start
        result == attempt.result
        token  == currToken(start)
        follow == currToken(nextToken(start))
    IN  /\ (input.family = "stmt" /\ token.type = "Identifier") =>
               /\ (follow.type = "Assignment" /\ result.ok) =>
                      /\ result.node.kind = "Assignment"
                      /\ result.node.name = token.value
                      /\ result.node.rvalue =
                             parseExpr(nextToken(nextToken(start))).node
               /\ follow.type # "Assignment" =>
                      /\ result.ok
                      /\ result.node.kind = "None"
                      /\ result.lx.pos = start.pos
                      /\ currToken(result.lx) = token
        /\ (lexer.toks = SeedVarDefinition /\ Parsed) =>
               nodes = <<AssignmentNode(<<"v", "a", "r", "N", "a", "m", "e">>,
                             BinOpNode("Star", NumberNode(Dec(2, 0)),
                                 BinOpNode("Minus", Number1,
                                           NumberNode(Dec(2, 0)))))>>

\* a = 1 ; b  -- the assignment was returned, then the attempt on b rolled back.
C1_Witness ==
    /\ input.family = "stmt"
    /\ Len(nodes) = 1
    /\ nodes[1] = AssignmentNode(a, Number1)
    /\ attempt.start.pos = 5
    /\ currToken(attempt.start) = Id(b)
    /\ attempt.result.node.kind = "None"
    /\ currToken(attempt.result.lx) = Id(b)

(***************************************************************************)
(* C5: callee(e1, ..., en); is the Call of callee with exactly the n       *)
(* arguments parse(e1), ..., parse(en) in source order, for n >= 0.        *)
(***************************************************************************)
C5_CallArgs ==
    (/\ input.family = "call"
     /\ \A i \in 1..Len(input.items) : input.items[i] # 0
     /\ Parsed)
    => /\ error = ""
       /\ nodes = <<FunctionCallNode(IdentNode(input.callee),
                                     NodesOf(ArgForms, input.items))>>

\* foo(1, 12.1, id1, -1.2, (1+2)); has been parsed to a Call with 5 arguments.
C5_Witness ==
    /\ input = SeedCall
    /\ Len(nodes) = 1
    /\ nodes[1].kind = "Call"
    /\ Len(nodes[1].args) = 5

(***************************************************************************)
(* C6: an argument list with a comma that is not both preceded and         *)
(* followed by an expression, as in f(a,), f(,a) and f(,), is a parse      *)
(* error and never a Call.                                                 *)
(***************************************************************************)
C6_CommaRejected ==
    (/\ input.family = "call"
     /\ Len(input.items) >= 2
     /\ \E i \in 1..Len(input.items) : input.items[i] = 0
     /\ Parsed)
    => /\ error # ""
       /\ nodes = <<>>

(***************************************************************************)
(* C7: def name(p1, ..., pn); is the ProtoFunction of name with the n      *)
(* parameter names in source order; def name(p1, ..., pn) { ... } is the   *)
(* Function of that proto and the block of the statements in source order. *)
(***************************************************************************)
C7_FunctionDef ==
    (input.family = "def" /\ Parsed)
    => /\ error = ""
       /\ nodes = <<IF input.hasBody
                    THEN FunctionNode(
                             ProtoFunctionStatement(input.name, input.params),
                             BlockNode(NodesOf(StmtForms, input.body)))
                    ELSE ProtoFunctionStatement(input.name, input.params)>>

\* A definition with two different parameters and two body statements was parsed.
C7_Witness ==
    /\ input.family = "def"
    /\ input.hasBody
    /\ Len(input.params) = 2
    /\ input.params[1] # input.params[2]
    /\ Len(input.body) = 2
    /\ Len(nodes) = 1
    /\ nodes[1].kind = "Function"
    /\ nodes[1].proto.params = input.params

\* The branch node of a condition form and a block form.
BranchNode(branch) ==
    CondBranch(CondForms[branch.cond].node, BlockForms[branch.block].node)

C9_DoWhileSemicolon ==
    /\ (input.family = "do" /\ ParsedFirst) =>
           IF input.semi
           THEN /\ error = ""
                /\ Len(nodes) = 1
                /\ nodes[1].kind = "LoopCond"
                /\ lexer.pos = Len(DoToks(input)) + 1
           ELSE error # ""
    /\ (/\ input.family = "do"
        /\ input.semi
        /\ input.follow # 0
        /\ Parsed
        /\ (error # "" \/ ~hasNextNode(lexer)))
       => /\ error = ""
          /\ Len(nodes) = 2
          /\ nodes[2] = StmtForms[input.follow].node

\* The offset of the first character of the line that holds offset pos.
LineStartOf(text, pos) ==
    LET breaks == {i \in 1..pos : text[i] = "\n"}
    IN  IF breaks = {} THEN 0 ELSE CHOOSE i \in breaks : \A j \in breaks : j <= i

(***************************************************************************)
(* C10: the padding of the message of makeErrorMsg is the token's column,  *)
(* its startPosition minus the offset of the first character of its line,  *)
(* without wrap-around, and the number of marks is endPosition -           *)
(* startPosition + 1, whatever part of the text has been read.             *)
(***************************************************************************)
C10_Padding ==
    (input.family = "error" /\ report # NoReport)
    => /\ report.padding =
              [hi |-> 0,
               lo |-> input.startPosition
                          - LineStartOf(input.text, input.startPosition)]
       /\ report.marks = input.endPosition - input.startPosition + 1

(***************************************************************************)
(* The emitter's driver.  mc, module and builder are the objects handed to *)
(* LLVMCodegen::generate; they live across the top-level nodes of a unit.  *)
(* codegen holds the unit under translation, the index of its next         *)
(* top-level node, the outcome of the latest call, and the trace.  Units   *)
(* are translated one top-level node at a time at module scope, up to the  *)
(* first error.  The other families apply one function of the emitter to   *)
(* one input: codegen.query is the input and codegen.answer the result.    *)
(***************************************************************************)
\* The name a node is about, for the trace.
NameOf(node) ==
    CASE node.kind \in {"Ident", "Assignment", "Declaration"} -> node.name
      [] node.kind = "Call" -> node.callee.name
      [] node.kind = "Function" -> node.proto.name
      [] OTHER -> ""

\* LLVMCodegen::generate on the next top-level node of the unit.
Generate ==
    /\ codegen.family = "unit"
    /\ codegen.ok
    /\ codegen.next <= Len(codegen.unit)
    /\ LET pre  == [Emitter(mc, module, builder, codegen.platform)
                        EXCEPT !.trace = codegen.trace]
           post == Traced("generate", NameOf(codegen.unit[codegen.next]), 0, pre,
                          generate(codegen.unit[codegen.next], pre))
       IN  /\ mc' = post.mc
           /\ module' = post.module
           /\ builder' = post.builder
           /\ codegen' = [codegen EXCEPT !.next = @ + 1, !.ok = post.ok,
                                         !.msg = post.msg, !.subject = post.subject,
                                         !.trace = post.trace]
    /\ UNCHANGED <<reader, jit, run, input, lexer, nodes, error, attempt, report>>

\* A function with one basic block, the builder at its end: where the
\* functions below are applied.
InFunction(platform) ==
    [Emitter(EmptyModuleContext,
             [functions |-> <<ModuleFunction("f", 0, <<>>, <<>>, "void", FALSE)>>,
              blocks |-> <<1>>, code |-> <<>>],
             InsertPoint(1, "end"), platform)
        EXCEPT !.mc.symTable = <<{}>>]

\* The two operands of a BinOp, of types query.lhs and query.rhs, are
\* promoted, and tryCastValue casts a value of query.lhs to query.rhs.
TryCastValue ==
    /\ codegen.family = "cast"
    /\ codegen.answer = NoAnswer
    /\ LET resultType == getResultType(codegen.query.lhs, codegen.query.rhs)
           post == tryCastValue(InFunction(codegen.platform),
                                Value(codegen.query.lhs, "inst"), codegen.query.rhs)
       IN  codegen' =
               [codegen EXCEPT
                   !.answer = [resultType |-> resultType,
                               swapped |-> getResultType(codegen.query.rhs,
                                                         codegen.query.lhs),
                               lhsCast |-> castOutcome(codegen.query.lhs, resultType),
                               rhsCast |-> castOutcome(codegen.query.rhs, resultType),
                               ok |-> post.ok,
                               msg |-> post.msg,
                               created |-> [i \in 1..Len(post.module.code) |->
                                                post.module.code[i].op],
                               type |-> post.value.ty]]
    /\ UNCHANGED <<reader, jit, run, input, lexer, nodes, error, attempt, report, mc, module, builder>>

\* createCompare on two i32 values query.x and query.y, and the predicate
\* NumericIRType chooses for the same operator on a signed integer type.
CreateCompare ==
    /\ codegen.family = "compare"
    /\ codegen.answer = NoAnswer
    /\ LET post == createBinary(InFunction(codegen.platform), codegen.query.op,
                                Value("i32", "inst"), Value("i32", "inst"), "i32")
       IN  codegen' =
               [codegen EXCEPT
                   !.answer = [predicate |-> post.module.code[1].op,
                               result |-> icmp(post.module.code[1].op,
                                               codegen.query.x, codegen.query.y),
                               typePredicate |->
                                   getComparePredicate(IntIRType, codegen.query.op)]]
    /\ UNCHANGED <<reader, jit, run, input, lexer, nodes, error, attempt, report, mc, module, builder>>

\* ByteIRType::isOperationSupported(query.op, query.rhs).
IsOperationSupported ==
    /\ codegen.family = "supports"
    /\ codegen.answer = NoAnswer
    /\ codegen' = [codegen EXCEPT
                      !.answer = [supported |->
                                      ByteIsOperationSupported(codegen.query.op,
                                                               codegen.query.rhs)]]
    /\ UNCHANGED <<reader, jit, run, input, lexer, nodes, error, attempt, report, mc, module, builder>>

\* NumericIRType::createBinaryOp(query.op) of the type query.type.
CreateBinaryOp ==
    /\ codegen.family = "binary"
    /\ codegen.answer = NoAnswer
    /\ codegen' = [codegen EXCEPT
                      !.answer = [created |->
                                      NumericCreateBinaryOp(codegen.query.type,
                                                            codegen.query.op)]]
    /\ UNCHANGED <<reader, jit, run, input, lexer, nodes, error, attempt, report, mc, module, builder>>

\* NumericIRType::createUnaryOp(query.op) of the integer type query.type
\* on the value query.operand, loaded from the slot query.storage tells of.
\* The function is not told the operator's position, query.position.
CreateUnaryOp ==
    /\ codegen.family = "unary"
    /\ codegen.answer = NoAnswer
    /\ codegen' = [codegen EXCEPT
                      !.answer = NumericCreateUnaryOp(codegen.query.type,
                                                      codegen.query.op,
                                                      codegen.query.operand,
                                                      codegen.query.storage)]
    /\ UNCHANGED <<reader, jit, run, input, lexer, nodes, error, attempt, report, mc, module, builder>>

(***************************************************************************)
(* Units.  A unit is an optional global `int x`, a function f, and an      *)
(* optional top-level node after it.  The body of f is up to MaxBodyLen    *)
(* statements of BodyForms.                                                *)
(***************************************************************************)
MaxBodyLen == 2

MaxCallArgs == 2

Int1 == NumberLiteral(1, FALSE)

Declare(name) == DeclarationNode(PrimitiveType("Integer"), name, <<>>)

CallOf(name, n) == FunctionCallNode(IdentNode(name), [i \in 1..n |-> Int1])

\* extern void print(int, ...), known to the module context only.
PrintProto ==
    ProtoFunction("print", <<Param(PrimitiveType("Integer"), "fmt")>>,
                  PrimitiveType("Void"), TRUE)

Calls == {CallOf("f", n) : n \in 0..MaxCallArgs}
             \cup {CallOf("print", MaxCallArgs), CallOf("h", 0)}

BodyForms ==
    {Declare("x"),
     AssignmentNode("x", Int1), AssignmentNode("y", Int1),
     IdentNode("x"), IdentNode("y"),
     BlockNode(<<>>), BlockNode(<<Declare("x")>>),
     BlockNode(<<AssignmentNode("x", Int1)>>),
     ReturnNode(<<>>), ReturnNode(<<IdentNode("x")>>),
     FunctionNode(ProtoFunction("g", <<>>, PrimitiveType("Void"), FALSE),
                  BlockNode(<<Declare("x")>>))}
        \cup Calls

Bodies == UNION {[1..n -> BodyForms] : n \in 0..MaxBodyLen}

ParamLists == {<<>>, <<Param(PrimitiveType("Integer"), "x")>>}

\* void f(int x, int x) { }
TwiceX ==
    FunctionNode(ProtoFunction("f", <<Param(PrimitiveType("Integer"), "x"),
                                      Param(PrimitiveType("Integer"), "x")>>,
                               PrimitiveType("Void"), FALSE),
                 BlockNode(<<>>))

Functions ==
    {FunctionNode(ProtoFunction("f", params, PrimitiveType(ret), FALSE),
                  BlockNode(body)) :
         params \in ParamLists, ret \in {"Void", "Integer"}, body \in Bodies}

TopForms ==
    {AssignmentNode("x", Int1), AssignmentNode("y", Int1),
     IdentNode("x"), IdentNode("y"), BlockNode(<<>>),
     DeclarationNode(PrimitiveType("Integer"), "x", <<IdentNode("x")>>)}
        \cup Calls

Units ==
    {globals \o <<function>> : globals \in {<<>>, <<Declare("x")>>},
                               function \in Functions}
        \cup {<<TwiceX>>}
        \cup {globals \o <<Declare("y")>> \o <<top>> :
                  globals \in {<<>>, <<Declare("x")>>}, top \in TopForms}
        \cup {<<FunctionNode(ProtoFunction("f", <<Param(PrimitiveType("Integer"), "x")>>,
                                           PrimitiveType("Void"), FALSE),
                             BlockNode(<<>>)), top>> : top \in TopForms}

Platforms == [nullValue : {"crash", "plain", "terminator"}, rebind : BOOLEAN]

CastTypes == {"i1", "i8", "i32", "double"}

CompareOps == {"LeftAngleBracket", "LeftAngleBracketEqual", "RightAngleBracket",
               "RightAngleBracketEqual", "Equal", "NotEqual"}

MaxInt == 1

ByteOps == {"Plus", "Minus", "Star", "Slash", "Equal", "NotEqual",
            "LeftAngleBracket", "LeftAngleBracketEqual", "RightAngleBracket",
            "RightAngleBracketEqual", "BitwiseAnd", "BitwiseOr", "BitwiseXor",
            "LogicalAnd", "LogicalOr", "Assignment"}

IRTypes == {ByteIRType, CharIRType, IntIRType, DoubleIRType, BooleanIRType,
            StrIRType, NullIRType}

IdleParser ==
    /\ input = [family |-> "codegen"]
    /\ lexer = Parser(<<>>)
    /\ nodes = <<>>
    /\ error = ""
    /\ attempt = NoAttempt
    /\ report = NoReport

StartCodegen(family, unit, platform, query) ==
    /\ IdleParser
    /\ IdleMain
    /\ mc = [EmptyModuleContext EXCEPT !.functions = {PrintProto}]
    /\ module = EmptyModule
    /\ builder = NoInsertPoint
    /\ codegen = [IdleCodegen EXCEPT !.family = family, !.unit = unit,
                                     !.platform = platform, !.query = query]

InitUnit ==
    \E unit \in Units, platform \in Platforms :
        StartCodegen("unit", unit, platform, NoAnswer)

InitCast ==
    \E lhs \in CastTypes, rhs \in CastTypes :
        StartCodegen("cast", <<>>, IdleCodegen.platform, [lhs |-> lhs, rhs |-> rhs])

InitCompare ==
    \E op \in CompareOps, x \in (-MaxInt)..MaxInt, y \in (-MaxInt)..MaxInt :
        StartCodegen("compare", <<>>, IdleCodegen.platform,
                     [op |-> op, x |-> x, y |-> y])

InitSupports ==
    \E op \in ByteOps, rhs \in IRTypes :
        StartCodegen("supports", <<>>, IdleCodegen.platform, [op |-> op, rhs |-> rhs])

NumericIRTypes == {ByteIRType, CharIRType, IntIRType, DoubleIRType}

InitBinary ==
    \E type \in NumericIRTypes, op \in ByteOps :
        StartCodegen("binary", <<>>, IdleCodegen.platform, [type |-> type, op |-> op])

InitUnary ==
    \E type \in {ByteIRType, CharIRType, IntIRType},
       op \in {"IncrementOperator", "DecrementOperator"},
       position \in {"Prefix", "Postfix"},
       operand \in (-MaxInt)..MaxInt, storage \in BOOLEAN :
        StartCodegen("unary", <<>>, IdleCodegen.platform,
                     [type |-> type, op |-> op, position |-> position,
                      operand |-> operand, storage |-> storage])

InitCodegen ==
    InitUnit \/ InitCast \/ InitCompare \/ InitSupports \/ InitBinary \/ InitUnary

NextCodegen ==
    \/ Generate \/ TryCastValue \/ CreateCompare \/ IsOperationSupported
    \/ CreateBinaryOp \/ CreateUnaryOp

SpecCodegen == InitCodegen /\ [][NextCodegen]_vars

(***************************************************************************)
(* Properties of the emitter.  They are stated over codegen.trace, the     *)
(* record of the calls made so far.                                        *)
(***************************************************************************)
Events(fns) == {i \in DOMAIN codegen.trace : codegen.trace[i].fn \in fns}

TraceAt(i) == codegen.trace[i]

\* The instructions created during the call of trace entry i.
CreatedBy(i) ==
    {module.code[k] : k \in (TraceAt(i).from + 1)..TraceAt(i).to}

\* C11: for every top-level node whose emission completes without error,
\* and for every block or function body emitted without error inside it,
\* the depth of the scope stack after emission equals the depth before.
C11_ScopesBalanced ==
    \A i \in Events({"generate", "generateBasicBlock"}) :
        TraceAt(i).ok => TraceAt(i).depthAfter = TraceAt(i).depthBefore

\* A function with a nested block or function in its body was emitted
\* without error.
C11_Witness ==
    /\ \E i \in Events({"generate"}) : TraceAt(i).ok /\ TraceAt(i).name = "f"
    /\ \E i \in Events({"generateBasicBlock"}) :
           TraceAt(i).ok /\ TraceAt(i).depthBefore = 1

\* C12: when emission of a block or function body fails, the scope entered
\* by generateBasicBlock is popped before the error propagates: the depth
\* after the failure equals the depth before the block was entered.
C12_ScopePoppedOnFailure ==
    \A i \in Events({"generateBasicBlock"}) :
        ~TraceAt(i).ok => TraceAt(i).depthAfter = TraceAt(i).depthBefore

\* C13: after generateBasicBlock or genLocalDeclaration returns or throws,
\* the insertion point equals the one in effect before the call.
C13_InsertPointRestored ==
    \A i \in Events({"generateBasicBlock", "genLocalDeclaration"}) :
        TraceAt(i).ipAfter = TraceAt(i).ipBefore

\* A declaration succeeded, a declaration in a nested block threw, and so
\* did the nested block and the function body around it.
C13_Witness ==
    /\ \E i \in Events({"genLocalDeclaration"}) : TraceAt(i).ok
    /\ \E i \in Events({"genLocalDeclaration"}) :
           ~TraceAt(i).ok /\ TraceAt(i).depthBefore = 2
    /\ \E i \in Events({"generateBasicBlock"}) :
           ~TraceAt(i).ok /\ TraceAt(i).ipBefore.block # 0
    /\ \E i \in Events({"generateBasicBlock"}) :
           ~TraceAt(i).ok /\ TraceAt(i).ipBefore = NoInsertPoint

\* C14: an Identifier read loads from the local slot bound to the name when
\* one exists, and from the global of that name only when no local binding
\* exists; so a read of a name bound both locally and globally uses the
\* slot an Assignment of that name stores to, the local one.
C14_IdentPrefersLocal ==
    /\ \A i \in Events({"visitIdent"}) :
           TraceAt(i).ok =>
               \A inst \in CreatedBy(i) :
                   inst.op = "load" =>
                       inst.slot = IF TraceAt(i).local # NoSlot
                                   THEN TraceAt(i).local
                                   ELSE TraceAt(i).global
    /\ \A i \in Events({"visitAssignment"}) :
           TraceAt(i).ok /\ TraceAt(i).local # NoSlot =>
               \A inst \in CreatedBy(i) :
                   inst.op = "store" => inst.slot = TraceAt(i).local

\* C15: an Identifier read or an Assignment of a name bound neither in a
\* scope of the symbol table nor in the globals fails with an error that
\* names it and creates no load or store, inside a function and at module
\* scope alike.
C15_UnknownNameFails ==
    \A i \in Events({"visitIdent", "visitAssignment"}) :
        TraceAt(i).local = NoSlot /\ TraceAt(i).global = NoSlot =>
            /\ ~TraceAt(i).ok
            /\ TraceAt(i).subject = TraceAt(i).name
            /\ \A inst \in CreatedBy(i) : inst.op \notin {"load", "store"}

\* C16: a Declaration inside a function fails with a redeclaration error
\* exactly when the name is bound in the innermost scope, so a name bound
\* only in an enclosing scope can be shadowed; and a failed Declaration
\* adds no binding.
C16_RedeclarationInnermostOnly ==
    \A i \in Events({"genLocalDeclaration"}) :
        /\ (~TraceAt(i).ok /\ TraceAt(i).msg = "Redeclaration of variable")
               <=> BoundIn(TraceAt(i).tableBefore[TraceAt(i).depthBefore],
                           TraceAt(i).name)
        /\ ~TraceAt(i).ok => TraceAt(i).tableAfter = TraceAt(i).tableBefore

\* C17: a call is emitted only if the callee resolves, to a function of
\* the module or else to a known prototype emitted on demand, and the
\* callee is variadic or has as many parameters as the call has arguments;
\* an unresolved callee or an argument-count mismatch of a non-variadic
\* callee is an error and no call instruction is created.
C17_CallResolutionAndArity ==
    \A i \in Events({"visitFunctionCall"}) :
        /\ TraceAt(i).ok =>
               /\ TraceAt(i).callee # NoFunction
               /\ getFunction(module, TraceAt(i).name) # 0
               /\ \/ TraceAt(i).callee.isVarArg
                  \/ Len(TraceAt(i).callee.paramTypes) = TraceAt(i).nargs
        /\ \/ TraceAt(i).callee = NoFunction
           \/ /\ ~TraceAt(i).callee.isVarArg
              /\ Len(TraceAt(i).callee.paramTypes) # TraceAt(i).nargs
           => /\ ~TraceAt(i).ok
              /\ \A inst \in CreatedBy(i) : inst.op # "call"

\* A call of a variadic prototype was emitted on demand with more
\* arguments than parameters, and a call with too few arguments failed.
C17_Witness ==
    /\ \E i \in Events({"visitFunctionCall"}) :
           /\ TraceAt(i).ok
           /\ TraceAt(i).callee.isVarArg
           /\ TraceAt(i).nargs > Len(TraceAt(i).callee.paramTypes)
           /\ \E inst \in CreatedBy(i) : inst.op = "call" /\ inst.callee = "print"
    /\ \E i \in Events({"visitFunctionCall"}) :
           /\ ~TraceAt(i).ok
           /\ TraceAt(i).callee # NoFunction
           /\ TraceAt(i).nargs < Len(TraceAt(i).callee.paramTypes)

\* The promotion the claim states: double if either operand is double,
\* otherwise the wider integer type.
PromotedType(lhsType, rhsType) ==
    IF lhsType = "double" \/ rhsType = "double" THEN "double"
    ELSE IF getIntegerBitWidth(lhsType) >= getIntegerBitWidth(rhsType)
         THEN lhsType
         ELSE rhsType

\* The casts the claim names, for srcType # destType; "throw" is the
\* fatal error.
NamedCast(srcType, destType) ==
    IF srcType = "double" THEN "FPToSI"
    ELSE IF destType = "double" THEN "SIToFP"
    ELSE IF getIntegerBitWidth(destType) < getIntegerBitWidth(srcType) THEN "throw"
    ELSE IF srcType = "i1" THEN "ZExt"
    ELSE "SExt"

\* The same, with narrowing integer casts to i8 truncating and every cast
\* to i1 an error.
NamedCastOrTrunc(srcType, destType) ==
    IF destType = "i1" THEN "throw"
    ELSE IF srcType \in IntegerTypes /\ destType \in IntegerTypes
            /\ getIntegerBitWidth(destType) < getIntegerBitWidth(srcType)
    THEN "Trunc"
    ELSE NamedCast(srcType, destType)

CastAnswered == codegen.family = "cast" /\ codegen.answer # NoAnswer

\* What answer says tryCastValue did: the cast created, "same", or "throw".
CastDone ==
    IF ~codegen.answer.ok THEN "throw"
    ELSE IF codegen.answer.created = <<>> THEN "same"
    ELSE codegen.answer.created[1]

Promotes ==
    /\ codegen.answer.resultType = PromotedType(codegen.query.lhs, codegen.query.rhs)
    /\ codegen.answer.swapped = codegen.answer.resultType
    /\ codegen.answer.lhsCast =
           IF codegen.query.lhs = codegen.answer.resultType THEN "same"
           ELSE NamedCast(codegen.query.lhs, codegen.answer.resultType)
    /\ codegen.answer.rhsCast =
           IF codegen.query.rhs = codegen.answer.resultType THEN "same"
           ELSE NamedCast(codegen.query.rhs, codegen.answer.resultType)

\* C18, as amended: for operand types among i1, i8, i32 and double, BinOp
\* emission promotes both operands to double if either is double and
\* otherwise to the wider integer type, whatever the operand order; and
\* tryCastValue zero-extends from i1, sign-extends in other widening
\* integer casts, truncates in narrowing integer casts to i8, uses fptosi
\* from double to i8 or i32 and sitofp from an integer to double; a cast to
\* i1 from another type is a fatal error.
C18_PromotionAndCastsAmended ==
    CastAnswered =>
        /\ Promotes
        /\ CastDone = IF codegen.query.lhs = codegen.query.rhs THEN "same"
                      ELSE NamedCastOrTrunc(codegen.query.lhs, codegen.query.rhs)
        /\ codegen.answer.ok => codegen.answer.type = codegen.query.rhs

\* An i32 was cast to i8 by truncation.
C18_Witness ==
    /\ CastAnswered
    /\ codegen.query = [lhs |-> "i32", rhs |-> "i8"]
    /\ codegen.answer.created = <<"Trunc">>

\* C18 as stated: the casts are zero-extension from i1, sign-extension for
\* other widening integer casts, fptosi from double to an integer, sitofp
\* from an integer to double, and any other cast is a fatal error.
C18_PromotionAndCasts ==
    CastAnswered =>
        /\ Promotes
        /\ CastDone = IF codegen.query.lhs = codegen.query.rhs THEN "same"
                      ELSE NamedCast(codegen.query.lhs, codegen.query.rhs)

\* The meaning of a comparison operator on integers.
Compares(op, x, y) ==
    CASE op = "LeftAngleBracket" -> x < y
      [] op = "LeftAngleBracketEqual" -> x <= y
      [] op = "RightAngleBracket" -> x > y
      [] op = "RightAngleBracketEqual" -> x >= y
      [] op = "Equal" -> x = y
      [] op = "NotEqual" -> x # y

SignedPredicate(op) ==
    CASE op = "LeftAngleBracket" -> "ICMP_SLT"
      [] op = "LeftAngleBracketEqual" -> "ICMP_SLE"
      [] op = "RightAngleBracket" -> "ICMP_SGT"
      [] op = "RightAngleBracketEqual" -> "ICMP_SGE"
      [] op = "Equal" -> "ICMP_EQ"
      [] op = "NotEqual" -> "ICMP_NE"

\* C19: on signed integers createCompare lowers each of the six comparison
\* operators to the predicate of the same meaning, so the compare created
\* for x op y is true exactly when x op y holds, and the predicate is the
\* one NumericIRType::getComparePredicate chooses.
C19_ComparePredicates ==
    codegen.family = "compare" /\ codegen.answer # NoAnswer =>
        /\ codegen.answer.predicate = SignedPredicate(codegen.query.op)
        /\ codegen.answer.result =
               Compares(codegen.query.op, codegen.query.x, codegen.query.y)
        /\ codegen.answer.predicate = codegen.answer.typePredicate

\* C20: ByteIRType::isOperationSupported(op, rhs) is true for the four
\* arithmetic operators, the six comparisons and the three bitwise
\* operators when rhs is a numeric type, and false for every other operator
\* and for a rhs that is not numeric.
C20_ByteOperations ==
    codegen.family = "supports" /\ codegen.answer # NoAnswer =>
        codegen.answer.supported =
            (/\ codegen.query.rhs.numeric
             /\ codegen.query.op \in
                    {"Plus", "Minus", "Star", "Slash", "Equal", "NotEqual",
                     "LeftAngleBracket", "LeftAngleBracketEqual",
                     "RightAngleBracket", "RightAngleBracketEqual",
                     "BitwiseAnd", "BitwiseOr", "BitwiseXor"})

\* The calls of generateBasicBlock made for a Block node: the others, for
\* a function body, carry the function's name.
BlockEvents == {i \in Events({"generateBasicBlock"}) : TraceAt(i).name = ""}

\* C23: emitting a Block opens one scope, emits its statements and closes
\* the scope, and adds no terminator of its own: a Block none of whose
\* statements is a Return (every Block of the units is one) adds no ret and
\* no unreachable and raises no missing-return error.
C23_BlockAddsNoTerminator ==
    \A i \in BlockEvents :
        /\ TraceAt(i).msg # "Missing return in non-void function"
        /\ \A inst \in CreatedBy(i) : inst.op \notin {"ret", "unreachable"}
        /\ TraceAt(i).ok => TraceAt(i).depthAfter = TraceAt(i).depthBefore

\* The top-level function of the unit, once it has been emitted.
FunctionAt == CHOOSE k \in DOMAIN codegen.unit : codegen.unit[k].kind = "Function"

FunctionEmitted ==
    /\ codegen.family = "unit"
    /\ \E k \in DOMAIN codegen.unit : codegen.unit[k].kind = "Function"
    /\ codegen.next = FunctionAt + 1

HasReturn(statements) == \E k \in DOMAIN statements : statements[k].kind = "Return"

\* The instructions of the function's first block, in creation order.
RECURSIVE EntryCode(_)
EntryCode(k) ==
    IF k = 0 THEN <<>>
    ELSE IF module.code[k].block = 1 THEN Append(EntryCode(k - 1), module.code[k].op)
    ELSE EntryCode(k - 1)

\* C24: a function whose body has no Return ends with ret void when its
\* return type is void and fails with the missing-return error naming it
\* otherwise; a body with a Return gets no further terminator and nothing
\* of the statements after the first Return is emitted.  Bodies one of
\* whose statements fails for a reason of its own are left aside.
C24_MissingReturn ==
    FunctionEmitted
    /\ codegen.msg \in {"", "crash", "Missing return in non-void function",
                        "Function verification failed"} =>
        LET f      == codegen.unit[FunctionAt]
            code   == EntryCode(Len(module.code))
            rets   == {k \in DOMAIN code : code[k] \in {"ret", "unreachable"}}
        IN  IF HasReturn(f.body.statements)
            THEN /\ codegen.msg # "crash"
                 /\ rets = {Len(code)}
                 /\ code[Len(code)] = "ret"
            ELSE IF f.proto.returnType = "Void"
            THEN /\ codegen.ok
                 /\ rets = {Len(code)}
                 /\ code[Len(code)] = "ret"
            ELSE /\ codegen.msg = "Missing return in non-void function"
                 /\ codegen.subject = "f"

\* C30: an Assignment inside a function to a global made by a module-scope
\* Declaration casts the value and stores it to the global: a global of a
\* plain Declaration is not constant, and the is-constant error is for
\* constant globals only.
C30_GlobalAssignable ==
    \A i \in Events({"visitAssignment"}) :
        /\ TraceAt(i).ipBefore.block # 0
        /\ TraceAt(i).local = NoSlot
        /\ TraceAt(i).global # NoSlot
        => /\ ~TraceAt(i).global.isConstant
           /\ TraceAt(i).ok
           /\ \E inst \in CreatedBy(i) :
                  inst.op = "store" /\ inst.slot = TraceAt(i).global

\* C21: createUnaryOp for ++ and -- with a storage slot stores operand + 1,
\* respectively operand - 1, into the slot and returns the adjusted value
\* when the operator is in prefix position and the original operand when
\* it is in postfix position, for both operators.
C21_PrefixPostfixValue ==
    codegen.family = "unary" /\ codegen.answer # NoAnswer /\ codegen.query.storage =>
        LET adjusted == IF codegen.query.op = "IncrementOperator"
                        THEN codegen.query.operand + 1
                        ELSE codegen.query.operand - 1
        IN  /\ codegen.answer.stored = <<adjusted>>
            /\ codegen.answer.returned =
                   IF codegen.query.position = "Prefix"
                   THEN adjusted
                   ELSE codegen.query.operand

\* C22: createBinaryOp for / creates the division of the type's signedness
\* and floatness: fdiv for a float type, sdiv for a signed integer type,
\* udiv for an unsigned integer type, and never another instruction.
C22_DivisionInstruction ==
    /\ codegen.family = "binary"
    /\ codegen.answer # NoAnswer
    /\ codegen.query.op = "Slash"
    => codegen.answer.created =
           IF codegen.query.type.isFloat THEN "fdiv"
           ELSE IF codegen.query.type.isSigned THEN "sdiv"
           ELSE "udiv"

\* Ident (',' Ident)*, or nothing.
IsParamList(list) ==
    \/ list = <<>>
    \/ /\ Len(list) % 2 = 1
       /\ \A i \in DOMAIN list :
              list[i].type = IF i % 2 = 1 THEN "Identifier" ELSE "Comma"

\* C28: parseFunctionDef accepts only def Ident ( [Ident (, Ident)*] )
\* before the block or the semicolon: it raises a parse error when the
\* token after the name is not (, when a parameter position holds a token
\* that is not an identifier, and when a comma is not followed by a
\* parameter.
C28_FunctionDefRejects ==
    /\ input.family = "deftoks"
    /\ ParsedFirst
    /\ input.opener # LeftParenthesis \/ ~IsParamList(input.list)
    => /\ error # ""
       /\ nodes = <<>>

\* The requests made to the lexer so far.
Requests == lexer.ops

\* C29: each rollback request is immediately preceded by exactly one
\* advance, issued by the same tryParseAssignment attempt, with no other
\* advance, peek or rollback between the two; so the parser never rolls
\* back by more than one token and never twice in a row.
C29_RollbackDepthOne ==
    \A i \in DOMAIN Requests :
        Requests[i].op = "prevToken" =>
            /\ i > 1
            /\ Requests[i - 1] = [op |-> "nextToken", site |-> "tryParseAssignment"]
            /\ i > 2 => Requests[i - 2].site # "tryParseAssignment"

\* A for statement and two statements after it were parsed without an
\* error: a look-ahead was requested inside the for statement, and the
\* attempts on each of the two statements rolled back.
C29_Witness ==
    /\ input.family = "for"
    /\ Len(nodes) = 3
    /\ error = ""
    /\ \E i, j, k \in DOMAIN Requests :
        /\ i < j /\ j < k
        /\ Requests[i].op = "peekToken"
        /\ Requests[j].op = "prevToken"
        /\ Requests[k].op = "prevToken"

(***************************************************************************)
(* src/main.cpp, the reader: the text is read one character at a time      *)
(* from `stream`, a std::istream.  chars is the text, a sequence of        *)
(* one-character strings, pos the number of characters extracted, eofbit   *)
(* and failbit the state bits of the stream; EndOfFile is the value EOF.   *)
(***************************************************************************)
EndOfFile == "EOF"

Digits == {"0", "1", "2", "3", "4", "5", "6", "7", "8", "9"}

Letters ==
    {"a", "b", "c", "d", "e", "f", "g", "h", "i", "j", "k", "l", "m", "n", "o",
     "p", "q", "r", "s", "t", "u", "v", "w", "x", "y", "z"}

isspace(ch) == ch \in {" ", "\n"}

isdigit(ch) == ch \in Digits

isalpha(ch) == ch \in Letters

isalnum(ch) == isalpha(ch) \/ isdigit(ch)

ispunct(ch) ==
    ch \in {"+", "-", ";", ".", ",", "(", ")", "{", "}", "<", ">", "=", "*", "/"}

StreamGood(r) == ~r.eofbit /\ ~r.failbit

\* stream->get(): the next character, or EOF with eofbit and failbit set
\* when there is none; a stream that is not good only gets failbit set.
StreamGet(r) ==
    IF StreamGood(r) /\ r.pos < Len(r.chars)
    THEN [r EXCEPT !.pos = @ + 1, !.lastChar = r.chars[r.pos + 1]]
    ELSE [r EXCEPT !.eofbit = StreamGood(r) \/ @, !.failbit = TRUE,
                   !.lastChar = EndOfFile]

\* getPeekChar(): the value of stream->peek() ...
getPeekChar(r) ==
    IF StreamGood(r) /\ r.pos < Len(r.chars) THEN r.chars[r.pos + 1] ELSE EndOfFile

\* ... and the stream after it: peek sets eofbit at the end of a good
\* stream and failbit on a stream that is not good.
Peeked(r) ==
    IF StreamGood(r)
    THEN [r EXCEPT !.eofbit = r.pos >= Len(r.chars)]
    ELSE [r EXCEPT !.failbit = TRUE]

RECURSIVE readNextChar(_)
readNextChar(r) ==
    LET got == StreamGet(r)
    IN  IF got.lastChar = "\n" \/ ~got.eofbit THEN got
        ELSE IF ~got.failbit THEN readNextChar(got)
        ELSE got

isSignOfNumber(ch) == ch \in {"+", "-"}

isCharOfNumber(ch) == isdigit(ch) \/ ch = "."

\* One iteration of the do-while loop of parseNumber; again tells whether
\* the loop goes round once more.
parseNumberStep(r) ==
    IF isspace(r.lastChar)
    THEN IF ispunct(getPeekChar(r))
         THEN [r |-> Peeked(r), again |-> FALSE]
         ELSE LET read == readNextChar(Peeked(r))
              IN  [r |-> read, again |-> ~read.failbit]
    ELSE IF (isSignOfNumber(r.lastChar) /\ r.numberValue = <<>>)
            \/ isCharOfNumber(r.lastChar)
    THEN LET pushed == [r EXCEPT !.numberValue = Append(@, r.lastChar)]
         IN  IF ispunct(getPeekChar(r)) /\ getPeekChar(r) # "."
             THEN [r |-> Peeked(pushed), again |-> FALSE]
             ELSE LET read == readNextChar(Peeked(pushed))
                  IN  [r |-> read, again |-> ~read.failbit]
    ELSE [r |-> r, again |-> FALSE]

\* The token of an identifier.
KeywordToken(identifier) ==
    IF identifier = <<"d", "e", "f">> THEN "FunctionDefinitionToken"
    ELSE IF identifier = <<"i", "f">> THEN "IfToken"
    ELSE IF identifier = <<"e", "l", "s", "e">> THEN "ElseToken"
    ELSE IF identifier = <<"f", "o", "r">> THEN "ForLoopToken"
    ELSE "IdentifierToken"

\* The reader at the call readNextToken(inExpression) on the text chars.
\* lastChar is ' ' and currentToken is zero, EosToken, when the program
\* starts.
Reader(chars, inExpression) ==
    [chars |-> chars, pos |-> 0, eofbit |-> FALSE, failbit |-> FALSE,
     lastChar |-> " ", currentToken |-> "EosToken",
     numberValue |-> <<>>, identifier |-> <<>>,
     inExpression |-> inExpression, pc |-> "skipSpace"]

Returned(r) == [r EXCEPT !.pc = "return"]

\* readNextToken, first loop: do readNextChar() while isspace(lastChar).
SkipSpace ==
    /\ reader.pc = "skipSpace"
    /\ LET read == readNextChar(reader)
       IN  reader' = [read EXCEPT !.pc = IF isspace(read.lastChar)
                                         THEN "skipSpace"
                                         ELSE IF read.lastChar = ";" /\ ~read.inExpression
                                         THEN "semicolon"
                                         ELSE "classify"]
    /\ UNCHANGED <<jit, run, input, lexer, nodes, error, attempt, report,
                   mc, module, builder, codegen>>

\* readNextToken, the loop after a ';' outside an expression.
SkipSemicolon ==
    /\ reader.pc = "semicolon"
    /\ LET read == readNextChar(reader)
       IN  reader' = [read EXCEPT !.pc = IF isspace(read.lastChar) /\ read.lastChar # "\n"
                                         THEN "semicolon"
                                         ELSE "classify"]
    /\ UNCHANGED <<jit, run, input, lexer, nodes, error, attempt, report,
                   mc, module, builder, codegen>>

\* readNextToken from the test for EOF to the head of the loop that reads
\* the token, or to the return.
Classify ==
    /\ reader.pc = "classify"
    /\ reader' =
        IF reader.lastChar = EndOfFile
        THEN Returned([reader EXCEPT !.currentToken = "EosToken"])
        ELSE IF (isSignOfNumber(reader.lastChar) /\ ~reader.inExpression)
                \/ isCharOfNumber(reader.lastChar)
        THEN [reader EXCEPT !.currentToken = "NumberToken", !.numberValue = <<>>,
                            !.pc = "parseNumber"]
        ELSE IF isSignOfNumber(reader.lastChar)
        THEN IF getPeekChar(reader) = reader.lastChar
             THEN [Peeked(reader) EXCEPT !.currentToken = "OtherToken", !.pc = "operator"]
             ELSE Returned([Peeked(reader) EXCEPT !.currentToken = "OtherToken"])
        ELSE IF isalpha(reader.lastChar)
        THEN [reader EXCEPT !.currentToken = "OtherToken", !.identifier = <<>>,
                            !.pc = "identifier"]
        ELSE Returned([reader EXCEPT !.currentToken = "OtherToken"])
    /\ UNCHANGED <<jit, run, input, lexer, nodes, error, attempt, report,
                   mc, module, builder, codegen>>

\* One iteration of parseNumber's loop.
ParseNumber ==
    /\ reader.pc = "parseNumber"
    /\ LET step == parseNumberStep(reader)
       IN  reader' = IF step.again THEN step.r ELSE Returned(step.r)
    /\ UNCHANGED <<jit, run, input, lexer, nodes, error, attempt, report,
                   mc, module, builder, codegen>>

\* The test of  while (!isalnum(getPeekChar())) readNextChar();  and, when
\* the loop is left, the token of the operator.
ScanOperator ==
    /\ reader.pc = "operator"
    /\ reader' =
        IF ~isalnum(getPeekChar(reader))
        THEN [Peeked(reader) EXCEPT !.pc = "operatorBody"]
        ELSE Returned([Peeked(reader) EXCEPT
                 !.currentToken = IF reader.lastChar = "+"
                                  THEN "IncrementOperatorToken"
                                  ELSE "DecrementOperatorToken"])
    /\ UNCHANGED <<jit, run, input, lexer, nodes, error, attempt, report,
                   mc, module, builder, codegen>>

\* The body of that loop, readNextChar(), and back to the test.
ScanOperatorBody ==
    /\ reader.pc = "operatorBody"
    /\ reader' = [readNextChar(reader) EXCEPT !.pc = "operator"]
    /\ UNCHANGED <<jit, run, input, lexer, nodes, error, attempt, report,
                   mc, module, builder, codegen>>

\* One iteration of the loop that collects an identifier and, when the
\* loop is left, the token of the identifier.
ScanIdentifier ==
    /\ reader.pc = "identifier"
    /\ reader' =
        IF isalnum(reader.lastChar)
        THEN LET pushed == [reader EXCEPT !.identifier = Append(@, reader.lastChar)]
             IN  IF ~isalnum(getPeekChar(reader))
                 THEN Returned([Peeked(pushed) EXCEPT
                          !.currentToken = KeywordToken(pushed.identifier)])
                 ELSE readNextChar(Peeked(pushed))
        ELSE Returned([reader EXCEPT !.currentToken = KeywordToken(reader.identifier)])
    /\ UNCHANGED <<jit, run, input, lexer, nodes, error, attempt, report,
                   mc, module, builder, codegen>>

\* The next call of readNextToken, as the parsing functions of main.cpp
\* make it until the end of the stream.
ReadNextToken ==
    /\ reader.pc = "return"
    /\ reader.currentToken # "EosToken"
    /\ \E inExpression \in BOOLEAN :
        reader' = [reader EXCEPT !.inExpression = inExpression, !.pc = "skipSpace"]
    /\ UNCHANGED <<jit, run, input, lexer, nodes, error, attempt, report,
                   mc, module, builder, codegen>>

MaxTextChars == 3

TextAlphabet == {"+", "-", "i", "1", " ", ";"}

InitReader ==
    /\ input = [family |-> "reader"]
    /\ lexer = Parser(<<>>)
    /\ nodes = <<>>
    /\ error = ""
    /\ attempt = NoAttempt
    /\ report = NoReport
    /\ mc = EmptyModuleContext
    /\ module = EmptyModule
    /\ builder = NoInsertPoint
    /\ codegen = IdleCodegen
    /\ jit = [pc |-> "idle"]
    /\ run = [pc |-> "idle"]
    /\ \E n \in 0..MaxTextChars :
        \E chars \in [1..n -> TextAlphabet], inExpression \in BOOLEAN :
            reader = Reader(chars, inExpression)

NextReader ==
    \/ SkipSpace
    \/ SkipSemicolon
    \/ Classify
    \/ ParseNumber
    \/ ScanOperator
    \/ ScanOperatorBody
    \/ ScanIdentifier
    \/ ReadNextToken

\* The program runs on: a step that can be taken is taken.
SpecReader == InitReader /\ [][NextReader]_vars /\ WF_vars(NextReader)

\* C27: every lexing and parsing operation terminates on every finite
\* input: a call of readNextToken returns, also when the ++ or -- it reads
\* is followed by no alphanumeric character before the end of the stream.
C27_ReadNextTokenReturns == (reader.pc # "return") ~> (reader.pc = "return")

(***************************************************************************)
(* src/main.cpp, the driver loop mainHandler.  A unit is what one round    *)
(* of the loop parses: a function definition or the top-level items up to  *)
(* the next definition, which become the body of _start.  An item of a     *)
(* body is given by the result of its codegen(): TRUE for a value, FALSE   *)
(* for nullptr.  llvmModule is the set of the functions of the module in   *)
(* progress; added is the sequence of the modules handed to the JIT.       *)
(***************************************************************************)
\* codegenExpressions: the value of the last item, or nullptr.
codegenExpressions(body) == body # <<>> /\ body[Len(body)]

\* FunctionAst::codegen on the module in progress: the function is created
\* in the module and erased again when the body yields no value.
FunctionAstCodegen(name, body, llvmModule) ==
    IF codegenExpressions(body)
    THEN [value |-> TRUE, llvmModule |-> llvmModule \cup {name}]
    ELSE [value |-> FALSE, llvmModule |-> llvmModule \ {name}]

\* initLlvmModules: a new module in progress.
NewLlvmModule == {}

UnitRecord(unit, value, added, started) ==
    [kind |-> unit.kind, value |-> value, added |-> added, started |-> started]

\* mainHandler on a function definition: print(definition.get()) runs the
\* code generation, then the module is added to the JIT.
MainHandlerDefinition ==
    /\ jit.pc = "mainHandler"
    /\ jit.next <= Len(jit.units)
    /\ jit.units[jit.next].kind = "def"
    /\ LET unit == jit.units[jit.next]
           llvmIR == FunctionAstCodegen(unit.name, unit.body, jit.llvmModule)
       IN  jit' = [jit EXCEPT !.next = @ + 1,
                              !.added = Append(@, llvmIR.llvmModule),
                              !.llvmModule = NewLlvmModule,
                              !.log = Append(@, UnitRecord(unit, llvmIR.value, TRUE, FALSE))]
    /\ UNCHANGED <<reader, run, input, lexer, nodes, error, attempt, report,
                   mc, module, builder, codegen>>

\* mainHandler on top-level items: the module is added and _start is
\* looked up and called when the code generation yielded a value.
MainHandlerTopLevel ==
    /\ jit.pc = "mainHandler"
    /\ jit.next <= Len(jit.units)
    /\ jit.units[jit.next].kind = "top"
    /\ LET unit == jit.units[jit.next]
           llvmIR == FunctionAstCodegen("_start", unit.body, jit.llvmModule)
       IN  jit' = IF llvmIR.value
                  THEN [jit EXCEPT !.next = @ + 1,
                                   !.added = Append(@, llvmIR.llvmModule),
                                   !.llvmModule = NewLlvmModule,
                                   !.started = @ + 1,
                                   !.log = Append(@, UnitRecord(unit, TRUE, TRUE, TRUE))]
                  ELSE [jit EXCEPT !.next = @ + 1,
                                   !.llvmModule = llvmIR.llvmModule,
                                   !.log = Append(@, UnitRecord(unit, FALSE, FALSE, FALSE))]
    /\ UNCHANGED <<reader, run, input, lexer, nodes, error, attempt, report,
                   mc, module, builder, codegen>>

MaxUnits == 2

MaxItems == 2

UnitBodies == UNION {[1..n -> BOOLEAN] : n \in 0..MaxItems}

MainUnits ==
    {[kind |-> "def", name |-> "f", body |-> body] : body \in UnitBodies}
        \cup {[kind |-> "top", name |-> "_start", body |-> body] : body \in UnitBodies}

InitMain ==
    /\ input = [family |-> "main"]
    /\ lexer = Parser(<<>>)
    /\ nodes = <<>>
    /\ error = ""
    /\ attempt = NoAttempt
    /\ report = NoReport
    /\ mc = EmptyModuleContext
    /\ module = EmptyModule
    /\ builder = NoInsertPoint
    /\ codegen = IdleCodegen
    /\ reader = [pc |-> "idle"]
    /\ run = [pc |-> "idle"]
    /\ \E n \in 1..MaxUnits :
        \E units \in [1..n -> MainUnits] :
            jit = [pc |-> "mainHandler", units |-> units, next |-> 1,
                   llvmModule |-> NewLlvmModule, added |-> <<>>, started |-> 0,
                   log |-> <<>>]

NextMain == MainHandlerDefinition \/ MainHandlerTopLevel

SpecMain == InitMain /\ [][NextMain]_vars

\* C26: for every unit, a function definition or a _start unit, whose
\* code generation returns no value, the module in progress is not handed
\* to the JIT and _start is neither looked up nor called.
C26_ModuleNotAddedOnFailure ==
    \A i \in DOMAIN jit.log :
        ~jit.log[i].value => ~jit.log[i].added /\ ~jit.log[i].started

(***************************************************************************)
(* src/main.cpp, ForLoopStatement::codegen and the run of the code it      *)
(* emits.  The statement is  for (i = init; i < limit; ++i) { print(i); }  *)
(* in the body of _start.  A block is the sequence of its instructions;    *)
(* an operand is a register or a constant; the doubles of the program are  *)
(* whole numbers here.                                                     *)
(***************************************************************************)
Reg(name) == [reg |-> name]

Const(n) == [const |-> n]

\* VariableAccessAst::codegen: the value bound to the name in namedValues.
VariableAccessCodegen(namedValues, name) == namedValues[name]

\* CallFunctionExpr::codegen for print(i).
CallFunctionCodegen(namedValues) ==
    <<[op |-> "call", callee |-> "print",
       arg |-> VariableAccessCodegen(namedValues, "i"), dst |-> "calltmp"]>>

\* UnaryOpAst::codegen for ++i.
UnaryOpCodegen(namedValues) ==
    <<[op |-> "fadd", lhs |-> VariableAccessCodegen(namedValues, "i"),
       rhs |-> Const(1), dst |-> "increment"]>>

\* BinOpAst::codegen for i < limit: the comparison and its conversion to
\* 0.0 or 1.0.
BinOpLessCodegen(namedValues, limit) ==
    <<[op |-> "fcmp_ult", lhs |-> VariableAccessCodegen(namedValues, "i"),
       rhs |-> Const(limit), dst |-> "cmp_tmp"],
      [op |-> "uitofp", src |-> Reg("cmp_tmp"), dst |-> "bool_tmp"]>>

\* ForLoopStatement::codegen in the entry block of _start, followed by the
\* ret of FunctionAst::codegen: the blocks of _start.
ForLoopCodegen(init, limit) ==
    LET namedValues == [name \in {"i"} |-> Reg("i")]
        loopBB ==
            <<[op |-> "phi", dst |-> "i",
               incoming |-> [entry |-> Const(init), for_loop |-> Reg("increment")]]>>
            \o CallFunctionCodegen(namedValues)
            \o UnaryOpCodegen(namedValues)
            \o BinOpLessCodegen(namedValues, limit)
            \o <<[op |-> "fcmp_one", lhs |-> Reg("bool_tmp"), rhs |-> Const(0),
                  dst |-> "loop_cond"],
                 [op |-> "condbr", cond |-> Reg("loop_cond"),
                  then |-> "for_loop", else |-> "after_loop"]>>
    IN  [entry |-> <<[op |-> "br", to |-> "for_loop"]>>,
         for_loop |-> loopBB,
         after_loop |-> <<[op |-> "ret", value |-> Const(0)]>>]

Registers == {"i", "calltmp", "increment", "cmp_tmp", "bool_tmp", "loop_cond"}

\* The value of an operand.
ValueOf(regs, operand) ==
    IF "reg" \in DOMAIN operand THEN regs[operand.reg] ELSE operand.const

FromBool(bit) == IF bit THEN 1 ELSE 0

CurrentInstruction == run.blocks[run.block][run.index]

\* An instruction that computes a value: phi, fadd, fcmp, uitofp.
ExecuteInstruction ==
    /\ run.pc = "running"
    /\ CurrentInstruction.op \in {"phi", "fadd", "fcmp_ult", "uitofp", "fcmp_one"}
    /\ LET ins == CurrentInstruction
           value ==
               CASE ins.op = "phi" -> ValueOf(run.regs, ins.incoming[run.from])
                 [] ins.op = "fadd" -> ValueOf(run.regs, ins.lhs) + ValueOf(run.regs, ins.rhs)
                 [] ins.op = "fcmp_ult" ->
                        FromBool(ValueOf(run.regs, ins.lhs) < ValueOf(run.regs, ins.rhs))
                 [] ins.op = "uitofp" -> ValueOf(run.regs, ins.src)
                 [] ins.op = "fcmp_one" ->
                        FromBool(ValueOf(run.regs, ins.lhs) # ValueOf(run.regs, ins.rhs))
       IN  run' = [run EXCEPT !.regs[ins.dst] = value, !.index = @ + 1]
    /\ UNCHANGED <<reader, jit, input, lexer, nodes, error, attempt, report,
                   mc, module, builder, codegen>>

\* The call of print: the argument is printed and returned.
ExecuteCall ==
    /\ run.pc = "running"
    /\ CurrentInstruction.op = "call"
    /\ LET ins == CurrentInstruction
           param == ValueOf(run.regs, ins.arg)
       IN  run' = [run EXCEPT !.printed = Append(@, param),
                              !.regs[ins.dst] = param, !.index = @ + 1]
    /\ UNCHANGED <<reader, jit, input, lexer, nodes, error, attempt, report,
                   mc, module, builder, codegen>>

\* A terminator: br, condbr or ret.
ExecuteTerminator ==
    /\ run.pc = "running"
    /\ CurrentInstruction.op \in {"br", "condbr", "ret"}
    /\ LET ins == CurrentInstruction
           to == IF ins.op = "br" THEN ins.to
                 ELSE IF ValueOf(run.regs, ins.cond) # 0 THEN ins.then ELSE ins.else
       IN  run' = IF ins.op = "ret"
                  THEN [run EXCEPT !.pc = "returned"]
                  ELSE [run EXCEPT !.from = run.block, !.block = to, !.index = 1]
    /\ UNCHANGED <<reader, jit, input, lexer, nodes, error, attempt, report,
                   mc, module, builder, codegen>>

MaxLoopInit == 2

MaxLoopLimit == 10

InitRun ==
    /\ input = [family |-> "run"]
    /\ lexer = Parser(<<>>)
    /\ nodes = <<>>
    /\ error = ""
    /\ attempt = NoAttempt
    /\ report = NoReport
    /\ mc = EmptyModuleContext
    /\ module = EmptyModule
    /\ builder = NoInsertPoint
    /\ codegen = IdleCodegen
    /\ reader = [pc |-> "idle"]
    /\ jit = [pc |-> "idle"]
    /\ \E init \in 0..MaxLoopInit, limit \in 0..MaxLoopLimit :
        run = [pc |-> "running", init |-> init, limit |-> limit,
               blocks |-> ForLoopCodegen(init, limit),
               block |-> "entry", index |-> 1, from |-> "entry",
               regs |-> [r \in Registers |-> 0], printed |-> <<>>]

NextRun == ExecuteInstruction \/ ExecuteCall \/ ExecuteTerminator

SpecRun == InitRun /\ [][NextRun]_vars

\* The values of i for which the condition holds, in the order of the loop.
RECURSIVE ValuesFrom(_, _)
ValuesFrom(init, limit) ==
    IF init < limit THEN <<init>> \o ValuesFrom(init + 1, limit) ELSE <<>>

\* C25: the emitted code tests the condition before every execution of the
\* body on the current value of the loop variable: print is called only
\* with values below the limit, and when the loop is left it has been
\* called exactly once for each such value from init on; ten times, the
\* last time with 9, for  for (i=0; i<10; ++i) { print(i); }.
C25_CondBeforeBody ==
    /\ \A k \in DOMAIN run.printed : run.printed[k] < run.limit
    /\ run.pc = "returned" => run.printed = ValuesFrom(run.init, run.limit)

====
